---- MODULE Spec2Model ----
(***************************************************************************)
(* Tenant-isolated identity binding and appointment booking of the         *)
(* flower-liff-saas repository.                                            *)
(*                                                                         *)
(* The model holds the relational tables the stored procedures and the     *)
(* client write paths touch (organizations, users, organization_users,     *)
(* doctor_shifts, appointments), the stored procedures of migration 002    *)
(* and of migration 003 (which drops and replaces them), and the client    *)
(* code that writes the same tables directly.                              *)
(*                                                                         *)
(* Column names follow migration 003 where the two migrations name the     *)
(* same column differently (is_bound / is_registered, customer_real_name / *)
(* real_name, doctor_id / staff_id, appointment_time / appointment_date +  *)
(* start_time).  An absent value (SQL NULL) of an id column is 0; ids      *)
(* issued by the SERIAL sequences start at 1.                              *)
(*                                                                         *)
(* A stored procedure runs as one READ COMMITTED transaction: each         *)
(* statement reads the latest committed rows, the transaction's writes     *)
(* are pending until its commit, and a row lock is held until commit or    *)
(* rollback.  Consecutive statements of one procedure are one step of the  *)
(* model where no other operation can tell them apart: reads of tables     *)
(* nothing writes, and a pending write followed by the commit.             *)
(***************************************************************************)
EXTENDS Integers, FiniteSets, Sequences, TLC

\* ------------------------------------------------------------------ bounds

\* sessions that may have a call in flight at the same time
MaxClients == 2
\* reserve calls (of any kind) issued in one behaviour
MaxReserveCalls == 2
\* bind calls (of any kind) issued in one behaviour
MaxBindCalls == 2
\* staff status changes issued in one behaviour
MaxStatusOps == 1
\* staff status changes issued in one behaviour of the staff pages
MaxStaffOps == 2
\* submissions of the onboarding form in one behaviour
MaxSubmits == 2
\* capacity (max_appointments) of the larger seeded shift
MaxCap == 2
\* the clock NOW() reads runs from 0 to MaxNow
MaxNow == 1

Clients == 1..MaxClients

\* ------------------------------------------------------------- seeded rows

\* organizations.id of the three clinics
Orgs == {1, 2, 3}

\* the organization ids bind callers supply: 4 is an id no organization has
OrgIds == {2, 4}

\* the organization the platform operator switches off and on
ToggledOrgs == {2}

\* users.id the reserve callers supply; 3 has no users row at Init
UserIds == {1, 2, 3}

\* treatments: 1 and 3 belong to organization 1 (3 is deactivated), 2 to 2.
\* No modelled operation writes this table.
treatments ==
    { [id |-> 1, organization_id |-> 1, duration_minutes |-> 1, is_active |-> TRUE],
      [id |-> 2, organization_id |-> 2, duration_minutes |-> 1, is_active |-> TRUE],
      [id |-> 3, organization_id |-> 1, duration_minutes |-> 1, is_active |-> FALSE] }

TreatmentIds == {t.id : t \in treatments}

TreatmentRow(id) == CHOOSE t \in treatments : t.id = id

\* Points in time; DateOf is the calendar day of a time (two times a day).
DateOf(t) == t \div 2

\* doctor_shifts without the occupancy counter: shift 1 (capacity 1) and
\* shift 2 (capacity MaxCap) of doctor 1 in organization 1, shift 3 of
\* doctor 2 in organization 2.  No modelled operation writes these columns.
shiftRows ==
    { [id |-> 1, organization_id |-> 1, doctor_id |-> 1, start_time |-> 0,
       end_time |-> 1, max_appointments |-> 1, is_available |-> TRUE],
      [id |-> 2, organization_id |-> 1, doctor_id |-> 1, start_time |-> 1,
       end_time |-> 2, max_appointments |-> MaxCap, is_available |-> TRUE],
      [id |-> 3, organization_id |-> 2, doctor_id |-> 2, start_time |-> 0,
       end_time |-> 1, max_appointments |-> 1, is_available |-> TRUE] }

ShiftIds == {s.id : s \in shiftRows}

ShiftRow(id) == CHOOSE s \in shiftRows : s.id = id

Statuses == {"pending", "confirmed", "checked_in", "completed", "cancelled"}

\* The staff pages that keep a fetched appointments list: the admin
\* dashboard (useAppointments and its AppointmentDetailModal), StaffSchedule
\* and StaffScanner.
Pages == {"admin", "schedule", "scanner"}

\* import.meta.env.VITE_ORGANIZATION_ID || '1': the organization of the
\* staff pages
StaffOrg == 1

\* startDate / endDate not supplied to useAppointments (undefined)
NoDate == -1

\* What OnboardingGate renders: the loading component, the auth error
\* screen, the onboarding form alone, the onboarding form over its blurred
\* children, or its children.
Screens == {"loading", "authError", "onboarding", "onboardingOverChildren", "children"}

\* What GET /api/users/check-registration may answer: 200 with isBound
\* true, 200 with isBound false, 404, another non-OK status, or no answer
\* (fetch rejects).
CheckResponses == {"bound", "unbound", "notFound", "httpError", "networkError"}

\* What POST /api/users/register may answer: 200 with a success body, 200
\* with a body that reports success = false, a non-OK status with a
\* message, or no answer (fetch rejects).
RegisterResponses == {"success", "rejected", "httpError", "networkError"}

\* ------------------------------------------------------------------- state

VARIABLES
    now,                 \* the clock NOW() and new Date() read
    migration,           \* 2: the procedures of migration 002 are installed; 3: those of 003
    organizations,       \* organizations: id -> [is_active]
    users,               \* users rows
    organization_users,  \* organization_users rows
    seqUser,             \* last value of the users.id sequence
    current_appointments,\* doctor_shifts.current_appointments, per shift id
    shift_updated_at,    \* doctor_shifts.updated_at, per shift id
    appointments,        \* appointments rows
    seqAppt,             \* last value of the appointments.id sequence
    via,                 \* history: appointments.id -> the operation that inserted the row
    shiftLock,           \* per shift id: the client holding its row lock (FOR UPDATE), 0 if none
    rtx,                 \* per client: the create_appointment transaction in flight
    btx,                 \* per client: the bind call in flight
    reserveLeft,         \* reserve calls that may still be issued
    bindLeft,            \* bind calls that may still be issued
    statusLeft,          \* staff status changes that may still be issued
    last,                \* history: the reserve call that returned last
    lastBind,            \* history: the bind call that returned last
    prevBind,            \* history: the bind call that returned before lastBind
    staffView,           \* per staff page: the appointments list it last fetched (local state)
    hookOptions,         \* useAppointments: organizationId, startDate, endDate of the hook
    lastStatus,          \* history: the staff status change that returned last
    gate,                \* the OnboardingGate component: its React state and its version
    adminAuth            \* AdminAuthProvider: the staff record loaded, and the last permission check

envVars == <<now, migration, organizations>>
bindDb == <<users, organization_users, seqUser>>
bookDb == <<current_appointments, shift_updated_at, appointments, seqAppt, via>>
bindCtl == <<btx, bindLeft, lastBind, prevBind>>
bookCtl == <<shiftLock, rtx, reserveLeft, last>>
staffVars == <<staffView, hookOptions, lastStatus>>

vars == <<now, migration, organizations, users, organization_users, seqUser,
          current_appointments, shift_updated_at, appointments, seqAppt, via,
          shiftLock, rtx, btx, reserveLeft, bindLeft, statusLeft,
          last, lastBind, prevBind, staffView, hookOptions, lastStatus, gate,
          adminAuth>>

\* ------------------------------------------------------- reserve requests

\* What a caller of create_appointment supplies.  Migration 002 takes
\* p_shift_id and (p_appointment_date, p_start_time); migration 003 takes
\* no shift id and one p_appointment_time.  A request carries the shift the
\* caller means, its doctor, and the time that shift starts.
ReserveRequests ==
    { [organization_id |-> o, user_id |-> u, treatment_id |-> t,
       staff_id |-> ShiftRow(s).doctor_id, shift_id |-> s,
       appointment_time |-> ShiftRow(s).start_time] :
        o \in Orgs, u \in UserIds, t \in TreatmentIds, s \in ShiftIds }

\* What a caller of bind supplies: the LINE identity and its display
\* metadata, the organization, and the profile typed into the form.
Lines == {"Ua", "Ub", "Uc"}

Payloads ==
    { [line_display_name |-> "d1", line_picture_url |-> "p1",
       real_name |-> "A", phone |-> "0912345678"],
      [line_display_name |-> "d2", line_picture_url |-> "p2",
       real_name |-> "B", phone |-> "0987654321"] }

BindRequests ==
    { [line_user_id |-> l, line_display_name |-> p.line_display_name,
       line_picture_url |-> p.line_picture_url, organization_id |-> o,
       real_name |-> p.real_name, phone |-> p.phone] :
        l \in Lines, p \in Payloads, o \in OrgIds }

IdleTx == [pc |-> "idle"]

\* useState<StaffInfo | null>(null) of AdminAuthProvider, no permission
\* check made yet
SignedOut == [staff |-> "null", asked |-> [n |-> 0]]

\* gatewayResult before runGateway has set it (null), in the shape of
\* GatewayResult
NoResult ==
    [isSet |-> FALSE, isAuthenticated |-> FALSE, isRegistered |-> FALSE,
     requiresOnboarding |-> FALSE, profile |-> FALSE, organizationUser |-> "null"]

\* OnboardingGate as mounted: useState(null), useState(true),
\* useState(false), useState(null); nothing requested yet.  Two versions
\* of the component exist: 1 renders the onboarding form alone, 2 (forced
\* registration) renders it over its children.  effectPending: the
\* runGateway effect is due (at mount, and whenever the provider's context
\* value was set, which hands the gate a new onAuthSuccess).
\* registrationError: the message is set (not null).  History: checked is
\* the answer the last identityGateway run got from check-registration,
\* submitted the answer the last registerUser call got, submits the number
\* of form submissions.
MountedGate(v) ==
    [version |-> v, effectPending |-> TRUE, isLoading |-> TRUE,
     gatewayResult |-> NoResult, isSubmitting |-> FALSE,
     registrationError |-> FALSE, checked |-> "notAsked", submitted |-> "none",
     submits |-> 0]

NoCall == [kind |-> "none", n |-> 0]

\* ------------------------------------------------------------------- Init

\* The seeded database: principal 1 ("Ua") is bound to organization 1;
\* principal 2 ("Ub") is bound to organizations 1 and 3 and has a row for
\* organization 2 that is not bound.  No shift is occupied, no appointment
\* exists.
InitDb ==
    /\ adminAuth = SignedOut
    /\ now = 0
    /\ migration = 2
    /\ organizations = [o \in Orgs |-> [is_active |-> TRUE]]
    /\ users =
        { [id |-> 1, line_user_id |-> "Ua", line_display_name |-> "d1",
           line_picture_url |-> "p1", is_registered |-> FALSE, updated_at |-> 0],
          [id |-> 2, line_user_id |-> "Ub", line_display_name |-> "d1",
           line_picture_url |-> "p1", is_registered |-> FALSE, updated_at |-> 0] }
    /\ organization_users =
        { [user_id |-> 1, organization_id |-> 1, customer_real_name |-> "A",
           customer_phone |-> "0912345678", is_bound |-> TRUE, role |-> "customer",
           updated_at |-> 0],
          [user_id |-> 2, organization_id |-> 1, customer_real_name |-> "A",
           customer_phone |-> "0912345678", is_bound |-> TRUE, role |-> "customer",
           updated_at |-> 0],
          [user_id |-> 2, organization_id |-> 3, customer_real_name |-> "A",
           customer_phone |-> "0912345678", is_bound |-> TRUE, role |-> "customer",
           updated_at |-> 0],
          [user_id |-> 2, organization_id |-> 2, customer_real_name |-> "",
           customer_phone |-> "", is_bound |-> FALSE, role |-> "customer",
           updated_at |-> 0] }
    /\ seqUser = 2
    /\ current_appointments = [s \in ShiftIds |-> 0]
    /\ shift_updated_at = [s \in ShiftIds |-> 0]
    /\ appointments = {}
    /\ seqAppt = 0
    /\ via = <<>>
    /\ shiftLock = [s \in ShiftIds |-> 0]
    /\ rtx = [c \in Clients |-> IdleTx]
    /\ btx = [c \in Clients |-> IdleTx]
    /\ reserveLeft = MaxReserveCalls
    /\ bindLeft = MaxBindCalls
    /\ last = NoCall
    /\ lastBind = NoCall
    /\ prevBind = NoCall
    /\ staffView = [p \in Pages |-> <<>>]
    /\ hookOptions = [organizationId |-> StaffOrg, startDate |-> NoDate, endDate |-> NoDate]
    /\ lastStatus = NoCall

Init == InitDb /\ statusLeft = MaxStatusOps /\ gate = MountedGate(2)

\* The organizations in which principal u holds a Binding whose bound flag
\* is set (recorded with each reserve call when it begins).
BoundOrgs(u) ==
    { ou.organization_id :
        ou \in { x \in organization_users : x.user_id = u /\ x.is_bound } }

\* ------------------------------------------------- create_appointment (002)

\* The registration check without its is_bound condition.
IsRegisteredInOrgAnyRow(u, o) ==
    \E ou \in organization_users : ou.user_id = u /\ ou.organization_id = o

\* IF NOT EXISTS (SELECT 1 FROM organization_users WHERE user_id = p_user_id
\*   AND organization_id = p_organization_id AND is_bound = true)
IsRegisteredInOrg(u, o) ==
    \E ou \in organization_users :
        /\ ou.user_id = u
        /\ ou.organization_id = o
        /\ ou.is_bound = TRUE

\* The treatment check without its organization_id condition.
TreatmentDurationAnyOrg(t, o) ==
    { tr.duration_minutes : tr \in
        { x \in treatments : x.id = t /\ x.is_active = TRUE } }

\* SELECT duration_minutes FROM treatments WHERE id = p_treatment_id AND
\*   organization_id = p_organization_id AND is_active = true;  {} is NULL
TreatmentDuration(t, o) ==
    { tr.duration_minutes : tr \in
        { x \in treatments : /\ x.id = t
                             /\ x.organization_id = o
                             /\ x.is_active = TRUE } }

\* The rows the SELECT ... FOR UPDATE of migration 002 matches: id,
\* organization, doctor, shift_date = p_appointment_date, is_available.
ShiftMatch002(r) ==
    { s \in shiftRows :
        /\ s.id = r.shift_id
        /\ s.organization_id = r.organization_id
        /\ s.doctor_id = r.staff_id
        /\ DateOf(s.start_time) = DateOf(r.appointment_time)
        /\ s.is_available = TRUE }

\* v_remaining_slots := max_appointments - current_appointments
RemainingSlots(s) == ShiftRow(s).max_appointments - current_appointments[s]

\* The capacity check as an off-by-one would write it (< for <=).
NoSlotLeftOffByOne(remaining) == remaining < 0

\* IF v_remaining_slots IS NULL OR v_remaining_slots <= 0
NoSlotLeft(remaining) == remaining <= 0

\* What a reserve call returned: (success, appointment_id, message), with
\* the request and the caller's bound organizations when the call began.
Returned(kind, ver, r, bound, result, id) ==
    [kind |-> kind, ver |-> ver, req |-> r, boundOrgs |-> bound,
     result |-> result, appointment_id |-> id, n |-> last.n + 1]

RunningTx(pc, ver, r) ==
    [pc |-> pc, ver |-> ver, req |-> r, started |-> now,
     boundOrgs |-> BoundOrgs(r.user_id),
     duration |-> CHOOSE d \in TreatmentDuration(r.treatment_id, r.organization_id) : TRUE,
     newAppt |-> {}, increment |-> 0]

\* The call begins: the registration check and the treatment check, both
\* reads.  A failed check returns at once.
Begin002(c, r) ==
    /\ migration = 2
    /\ rtx[c].pc = "idle"
    /\ reserveLeft > 0
    /\ reserveLeft' = reserveLeft - 1
    /\ IF ~IsRegisteredInOrg(r.user_id, r.organization_id)
       THEN /\ last' = Returned("create_appointment", 2, r, BoundOrgs(r.user_id),
                                "NotRegistered", 0)
            /\ UNCHANGED rtx
       ELSE IF TreatmentDuration(r.treatment_id, r.organization_id) = {}
       THEN /\ last' = Returned("create_appointment", 2, r, BoundOrgs(r.user_id),
                                "OfferingUnavailable", 0)
            /\ UNCHANGED rtx
       ELSE /\ rtx' = [rtx EXCEPT ![c] = RunningTx("lock", 2, r)]
            /\ UNCHANGED last
    /\ UNCHANGED <<envVars, bindDb, bindCtl, bookDb, shiftLock, statusLeft, staffVars, gate, adminAuth>>

\* SELECT (max_appointments - current_appointments) ... FOR UPDATE: waits
\* for the row lock, then reads the committed row.  No matching row, or no
\* slot left, returns the rejection and ends the transaction.
Lock002(c) ==
    /\ rtx[c].pc = "lock"
    /\ LET r == rtx[c].req
           m == ShiftMatch002(r)
       IN IF m = {}
          THEN /\ last' = Returned("create_appointment", 2, r, rtx[c].boundOrgs,
                                   "SlotFull", 0)
               /\ rtx' = [rtx EXCEPT ![c] = IdleTx]
               /\ UNCHANGED shiftLock
          ELSE /\ shiftLock[r.shift_id] = 0
               /\ IF NoSlotLeft(RemainingSlots(r.shift_id))
                  THEN /\ last' = Returned("create_appointment", 2, r, rtx[c].boundOrgs,
                                           "SlotFull", 0)
                       /\ rtx' = [rtx EXCEPT ![c] = IdleTx]
                       /\ UNCHANGED shiftLock
                  ELSE /\ shiftLock' = [shiftLock EXCEPT ![r.shift_id] = c]
                       /\ rtx' = [rtx EXCEPT ![c].pc = "insert"]
                       /\ UNCHANGED last
    /\ UNCHANGED <<envVars, bindDb, bindCtl, bookDb, reserveLeft, statusLeft, staffVars, gate, adminAuth>>

\* INSERT INTO appointments (...) VALUES (..., 'pending', p_notes)
\*   RETURNING id: the sequence advances at once, the row is pending.
\* (002 stores end_time = p_start_time + duration, 003 duration_minutes.)
NewAppointment(id, r, duration, t) ==
    [id |-> id, organization_id |-> r.organization_id, user_id |-> r.user_id,
     treatment_id |-> r.treatment_id, staff_id |-> r.staff_id,
     appointment_time |-> r.appointment_time, duration_minutes |-> duration,
     status |-> "pending", updated_at |-> t]

Insert002(c) ==
    /\ rtx[c].pc = "insert"
    /\ seqAppt' = seqAppt + 1
    /\ rtx' = [rtx EXCEPT ![c].pc = "increment",
                          ![c].newAppt = {NewAppointment(seqAppt + 1, rtx[c].req,
                                                         rtx[c].duration, rtx[c].started)}]
    /\ UNCHANGED <<envVars, bindDb, bindCtl, current_appointments, shift_updated_at,
                   appointments, via, shiftLock, reserveLeft, last, statusLeft, staffVars, gate, adminAuth>>

\* UPDATE doctor_shifts SET current_appointments = current_appointments + 1,
\*   updated_at = NOW() WHERE id = p_shift_id   (pending until commit)
Increment002(c) ==
    /\ rtx[c].pc = "increment"
    /\ rtx' = [rtx EXCEPT ![c].pc = "commit", ![c].increment = 1]
    /\ UNCHANGED <<envVars, bindDb, bindCtl, bookDb, shiftLock, reserveLeft, last,
                   statusLeft, staffVars, gate, adminAuth>>

\* RETURN QUERY SELECT true, v_appointment_id, ...; the transaction commits:
\* its pending row and counter update become visible, its lock is released.
Commit002(c) ==
    /\ rtx[c].pc = "commit"
    /\ LET r == rtx[c].req
           a == CHOOSE x \in rtx[c].newAppt : TRUE
       IN /\ appointments' = appointments \cup rtx[c].newAppt
          /\ via' = via @@ (a.id :> "create_appointment_002")
          /\ current_appointments' =
                [current_appointments EXCEPT
                    ![r.shift_id] = current_appointments[r.shift_id] + rtx[c].increment]
          /\ shift_updated_at' = [shift_updated_at EXCEPT ![r.shift_id] = rtx[c].started]
          /\ shiftLock' = [shiftLock EXCEPT ![r.shift_id] = 0]
          /\ last' = Returned("create_appointment", 2, r, rtx[c].boundOrgs,
                              "success", a.id)
    /\ rtx' = [rtx EXCEPT ![c] = IdleTx]
    /\ UNCHANGED <<envVars, bindDb, bindCtl, seqAppt, reserveLeft, statusLeft, staffVars, gate, adminAuth>>

\* Why the database may abort a running call: a serialization failure
\* (SQLSTATE 40001, when the session runs above READ COMMITTED; the function
\* does not choose its isolation level) or a lost connection / cancelled
\* statement.
AbortCauses == {"serialization_failure", "connection_lost"}

\* The transaction fails after its checks: everything pending is rolled
\* back and its lock released.  The function has no EXCEPTION block and no
\* loop: the failure reaches the caller as it is.
Rollback002(c) ==
    /\ rtx[c].pc \in {"lock", "insert", "increment", "commit"}
    /\ shiftLock' = [s \in ShiftIds |-> IF shiftLock[s] = c THEN 0 ELSE shiftLock[s]]
    /\ \E cause \in AbortCauses :
         last' = Returned("create_appointment", 2, rtx[c].req, rtx[c].boundOrgs, cause, 0)
    /\ rtx' = [rtx EXCEPT ![c] = IdleTx]
    /\ UNCHANGED <<envVars, bindDb, bindCtl, bookDb, reserveLeft, statusLeft, staffVars, gate, adminAuth>>

\* ------------------------------------------------- create_appointment (003)

\* IF NOT EXISTS (SELECT 1 FROM doctor_shifts WHERE organization_id = ...
\*   AND doctor_id = p_staff_id AND is_available = true
\*   AND p_appointment_time >= start_time AND p_appointment_time < end_time)
ShiftMatch003(r) ==
    { s \in shiftRows :
        /\ s.organization_id = r.organization_id
        /\ s.doctor_id = r.staff_id
        /\ s.is_available = TRUE
        /\ r.appointment_time >= s.start_time
        /\ r.appointment_time < s.end_time }

\* The call begins: the registration check, the treatment check and the
\* shift check, all reads.  A failed check returns at once.  p_shift_id is
\* not a parameter of this version: req.shift_id is not read.
Begin003(c, r) ==
    /\ migration = 3
    /\ rtx[c].pc = "idle"
    /\ reserveLeft > 0
    /\ reserveLeft' = reserveLeft - 1
    /\ IF ~IsRegisteredInOrg(r.user_id, r.organization_id)
       THEN /\ last' = Returned("create_appointment", 3, r, BoundOrgs(r.user_id),
                                "NotRegistered", 0)
            /\ UNCHANGED rtx
       ELSE IF TreatmentDuration(r.treatment_id, r.organization_id) = {}
       THEN /\ last' = Returned("create_appointment", 3, r, BoundOrgs(r.user_id),
                                "OfferingUnavailable", 0)
            /\ UNCHANGED rtx
       ELSE IF ShiftMatch003(r) = {}
       THEN /\ last' = Returned("create_appointment", 3, r, BoundOrgs(r.user_id),
                                "SlotFull", 0)
            /\ UNCHANGED rtx
       ELSE /\ rtx' = [rtx EXCEPT ![c] = RunningTx("insert3", 3, r)]
            /\ UNCHANGED last
    /\ UNCHANGED <<envVars, bindDb, bindCtl, bookDb, shiftLock, statusLeft, staffVars, gate, adminAuth>>

\* INSERT INTO appointments ... RETURNING id; RETURN QUERY SELECT true, ...
\* and the commit.  No statement of this version reads or writes
\* doctor_shifts.current_appointments, and none locks a row.
InsertCommit003(c) ==
    /\ rtx[c].pc = "insert3"
    /\ seqAppt' = seqAppt + 1
    /\ appointments' = appointments \cup
            {NewAppointment(seqAppt + 1, rtx[c].req, rtx[c].duration, rtx[c].started)}
    /\ via' = via @@ ((seqAppt + 1) :> "create_appointment_003")
    /\ last' = Returned("create_appointment", 3, rtx[c].req, rtx[c].boundOrgs,
                        "success", seqAppt + 1)
    /\ rtx' = [rtx EXCEPT ![c] = IdleTx]
    /\ UNCHANGED <<envVars, bindDb, bindCtl, current_appointments, shift_updated_at,
                   shiftLock, reserveLeft, statusLeft, staffVars, gate, adminAuth>>

Rollback003(c) ==
    /\ rtx[c].pc = "insert3"
    /\ \E cause \in AbortCauses :
         last' = Returned("create_appointment", 3, rtx[c].req, rtx[c].boundOrgs, cause, 0)
    /\ rtx' = [rtx EXCEPT ![c] = IdleTx]
    /\ UNCHANGED <<envVars, bindDb, bindCtl, bookDb, shiftLock, reserveLeft, statusLeft, staffVars, gate, adminAuth>>

\* Migration 003 is applied: DROP FUNCTION of 002's create_appointment and
\* register_user, CREATE of the new ones.  Calls of the dropped procedures
\* already running run to their end.
ApplyMigration003 ==
    /\ migration = 2
    /\ migration' = 3
    /\ UNCHANGED <<now, organizations, bindDb, bindCtl, bookDb, bookCtl, statusLeft, staffVars, gate, adminAuth>>

\* ------------------------------------------------ BookingPage.handleSubmit

\* supabase.from('appointments').insert({organization_id, user_id,
\*   treatment_id, doctor_id, appointment_time, status: 'pending', notes})
\* One INSERT statement sent by the client, after two client-side guards:
\* a user id is in localStorage, and a treatment, a date and a time are
\* selected.  The request's user_id is the localStorage value, its
\* organization_id the configured VITE_ORGANIZATION_ID.  The row carries
\* no duration (0 here).
handleSubmit(r) ==
    /\ reserveLeft > 0
    /\ reserveLeft' = reserveLeft - 1
    /\ r.user_id # 0
    /\ r.treatment_id # 0
    /\ seqAppt' = seqAppt + 1
    /\ appointments' = appointments \cup {NewAppointment(seqAppt + 1, r, 0, now)}
    /\ via' = via @@ ((seqAppt + 1) :> "BookingPage")
    /\ last' = Returned("BookingPage", 0, r, BoundOrgs(r.user_id), "success", seqAppt + 1)
    /\ UNCHANGED <<envVars, bindDb, bindCtl, current_appointments, shift_updated_at,
                   shiftLock, rtx, statusLeft, staffVars, gate, adminAuth>>

\* ------------------------------------------------- staff status changes

\* useAppointments.updateAppointmentStatus(appointmentId, newStatus) and
\* AppointmentDetailModal.updateStatus: UPDATE appointments SET status,
\* updated_at WHERE id = appointmentId AND organization_id = organizationId
SetStatus(rows, status, t) ==
    { IF a \in rows THEN [a EXCEPT !.status = status, !.updated_at = t] ELSE a :
        a \in appointments }

\* The status a page's list shows for an appointment ("none": not listed).
ViewStatus(p, id) ==
    IF \E i \in DOMAIN staffView[p] : staffView[p][i].id = id
    THEN staffView[p][CHOOSE i \in DOMAIN staffView[p] : staffView[p][i].id = id].status
    ELSE "none"

\* The status of the appointments row ("none": no such row).
RowStatus(rows, id) ==
    IF \E a \in rows : a.id = id
    THEN (CHOOSE a \in rows : a.id = id).status
    ELSE "none"

\* setAppointments(prev => prev.map(a => a.id === id ? {...a, status} : a))
SetViewStatus(list, id, status) ==
    [i \in DOMAIN list |->
        IF list[i].id = id THEN [list[i] EXCEPT !.status = status] ELSE list[i]]

\* History: what a staff status change did: the entry point, the status its
\* page showed when it was issued, the row's status before and after.
\* Every entry point reports success when the UPDATE raised no error.
StatusReturned(entry, p, id, newStatus) ==
    [kind |-> entry, page |-> p, id |-> id, to |-> newStatus,
     observed |-> ViewStatus(p, id),
     before |-> RowStatus(appointments, id),
     after |-> RowStatus(appointments', id),
     result |-> "success", n |-> lastStatus.n + 1]

updateAppointmentStatus(org, id, newStatus) ==
    /\ statusLeft > 0
    /\ statusLeft' = statusLeft - 1
    /\ \E a \in appointments : a.id = id
    /\ appointments' =
            SetStatus({a \in appointments : a.id = id /\ a.organization_id = org},
                      newStatus, now)
    /\ staffView' = [staffView EXCEPT !["admin"] = SetViewStatus(@, id, newStatus)]
    /\ lastStatus' = StatusReturned("updateAppointmentStatus", "admin", id, newStatus)
    /\ UNCHANGED <<envVars, bindDb, bindCtl, current_appointments, shift_updated_at,
                   seqAppt, via, bookCtl, hookOptions, gate, adminAuth>>

\* ------------------------------------------------- staff appointment lists

\* What a page keeps of a fetched appointments row.
ViewRow(a) == [id |-> a.id, appointment_time |-> a.appointment_time, status |-> a.status]

\* The orders in which a query may return a set of rows when its ORDER BY
\* runs the other way.
ListedReversed(rows, ascending) ==
    { f \in [1..Cardinality(rows) -> rows] :
        /\ \A i, j \in DOMAIN f : i # j => f[i] # f[j]
        /\ \A i, j \in DOMAIN f : i < j =>
              IF ascending THEN f[i].appointment_time >= f[j].appointment_time
                           ELSE f[i].appointment_time <= f[j].appointment_time }

\* .order('appointment_time', { ascending }) / ORDER BY a.appointment_time
\* [DESC]: the orders in which a query may return a set of rows; rows of
\* equal appointment_time come in any order.
Listed(rows, ascending) ==
    { f \in [1..Cardinality(rows) -> rows] :
        /\ \A i, j \in DOMAIN f : i # j => f[i] # f[j]
        /\ \A i, j \in DOMAIN f : i < j =>
              IF ascending THEN f[i].appointment_time <= f[j].appointment_time
                           ELSE f[i].appointment_time >= f[j].appointment_time }

\* useAppointments.fetchAppointments: appointments with
\* organization_users!inner(...) (an appointment without an
\* organization_users row of its user in its organization is dropped),
\* .eq('organization_id', organizationId), .gte / .lte on appointment_time
\* when startDate / endDate are given.
HookRows(rows, opt) ==
    { a \in rows :
        /\ a.organization_id = opt.organizationId
        /\ \E ou \in organization_users :
              ou.user_id = a.user_id /\ ou.organization_id = a.organization_id
        /\ (opt.startDate # NoDate => a.appointment_time >= opt.startDate)
        /\ (opt.endDate # NoDate => a.appointment_time <= opt.endDate) }

\* ... .order('appointment_time', { ascending: true }); setAppointments(data)
HookFetch(rows, opt) ==
    { [i \in DOMAIN f |-> ViewRow(f[i])] : f \in Listed(HookRows(rows, opt), TRUE) }

\* The hook is given its options and its effect fetches the list.
fetchAppointments(org, startDate, endDate) ==
    /\ hookOptions' = [organizationId |-> org, startDate |-> startDate,
                        endDate |-> endDate]
    /\ staffView' \in { [staffView EXCEPT !["admin"] = l] :
                          l \in HookFetch(appointments, hookOptions') }
    /\ UNCHANGED <<envVars, bindDb, bindCtl, bookDb, bookCtl, statusLeft,
                   lastStatus, gate, adminAuth>>

\* StaffSchedule.fetchAppointments: .eq('organization_id', organizationId),
\* appointment_time within the selected day, ascending.
ScheduleRows(rows, day) ==
    { a \in rows : a.organization_id = StaffOrg /\ DateOf(a.appointment_time) = day }

StaffSchedule_fetchAppointments(day) ==
    /\ staffView' \in { [staffView EXCEPT !["schedule"] =
                            [i \in DOMAIN f |-> ViewRow(f[i])]] :
                          f \in Listed(ScheduleRows(appointments, day), TRUE) }
    /\ UNCHANGED <<envVars, bindDb, bindCtl, bookDb, bookCtl, statusLeft,
                   hookOptions, lastStatus, gate, adminAuth>>

\* StaffScanner.lookupMember: today's appointments of the member in the
\* organization, ascending, .limit(1).single(); todayAppointment is that
\* row, or null when there is none.
StaffScanner_lookupMember(u) ==
    LET today == { a \in appointments :
                     /\ a.user_id = u
                     /\ a.organization_id = StaffOrg
                     /\ DateOf(a.appointment_time) = DateOf(now) }
    IN /\ \E us \in users : us.id = u
       /\ staffView' \in { [staffView EXCEPT !["scanner"] =
                               IF DOMAIN f = {} THEN <<>> ELSE <<ViewRow(f[1])>>] :
                             f \in Listed(today, TRUE) }
       /\ UNCHANGED <<envVars, bindDb, bindCtl, bookDb, bookCtl, statusLeft,
                      hookOptions, lastStatus, gate, adminAuth>>

\* ------------------------------------------------- a principal's listing

\* get_user_appointments (003): FROM appointments a JOIN users u ON
\* a.user_id = u.id JOIN treatments t ON a.treatment_id = t.id JOIN staff s
\* ON a.staff_id = s.id WHERE u.line_user_id = p_line_user_id AND
\* a.organization_id = p_organization_id ORDER BY a.appointment_time DESC.
\* (002 orders by appointment_date DESC, start_time DESC.)  Every doctor of
\* a seeded shift has a staff row.
get_user_appointments(line, o) ==
    LET rows == { a \in appointments :
                    /\ \E u \in users : u.id = a.user_id /\ u.line_user_id = line
                    /\ \E t \in treatments : t.id = a.treatment_id
                    /\ a.organization_id = o }
    IN { [i \in DOMAIN f |-> ViewRow(f[i])] : f \in Listed(rows, FALSE) }

\* getUserAppointments(userId, organizationId) of the client library:
\* .eq('user_id', userId).eq('organization_id', organizationId)
\* .order('appointment_time', { ascending: false })
getUserAppointments(userId, o) ==
    LET rows == { a \in appointments : a.user_id = userId /\ a.organization_id = o }
    IN { [i \in DOMAIN f |-> ViewRow(f[i])] : f \in Listed(rows, FALSE) }

\* ------------------------------------------- staff status changes by page

\* AppointmentDetailModal.updateStatus(newStatus), opened on an appointment
\* of the admin list.  The buttons it offers follow the status the list
\* shows: none for cancelled or completed, confirm for pending, check-in for
\* pending or confirmed, complete for checked_in, cancel otherwise.
ModalOffers(shown) ==
    IF shown \in {"cancelled", "completed", "none"} THEN {}
    ELSE {"cancelled"}
         \cup (IF shown = "pending" THEN {"confirmed"} ELSE {})
         \cup (IF shown \in {"pending", "confirmed"} THEN {"checked_in"} ELSE {})
         \cup (IF shown = "checked_in" THEN {"completed"} ELSE {})

\* UPDATE appointments SET status, updated_at WHERE id = appointment.id AND
\* organization_id = staff.organization_id; then onUpdate() (the hook's
\* refresh) and onClose().
AppointmentDetailModal_updateStatus(id, newStatus) ==
    /\ statusLeft > 0
    /\ statusLeft' = statusLeft - 1
    /\ newStatus \in ModalOffers(ViewStatus("admin", id))
    /\ appointments' =
            SetStatus({a \in appointments :
                         a.id = id /\ a.organization_id = hookOptions.organizationId},
                      newStatus, now)
    /\ staffView' \in { [staffView EXCEPT !["admin"] = l] :
                          l \in HookFetch(appointments', hookOptions) }
    /\ lastStatus' = StatusReturned("AppointmentDetailModal", "admin", id, newStatus)
    /\ UNCHANGED <<envVars, bindDb, bindCtl, current_appointments, shift_updated_at,
                   seqAppt, via, bookCtl, hookOptions, gate, adminAuth>>

\* .update({ status }).eq('id', appointment.id): no organization filter,
\* updated_at not written.
SetStatusById(id, status) ==
    { IF a.id = id THEN [a EXCEPT !.status = status] ELSE a : a \in appointments }

\* A StaffSchedule handler that passed its guard: the UPDATE by id, then
\* the same status written into the page's list.
ScheduleUpdate(entry, id, status) ==
    /\ statusLeft > 0
    /\ statusLeft' = statusLeft - 1
    /\ appointments' = SetStatusById(id, status)
    /\ staffView' = [staffView EXCEPT !["schedule"] = SetViewStatus(@, id, status)]
    /\ lastStatus' = StatusReturned(entry, "schedule", id, status)
    /\ UNCHANGED <<envVars, bindDb, bindCtl, current_appointments, shift_updated_at,
                   seqAppt, via, bookCtl, hookOptions, gate, adminAuth>>

\* StaffSchedule.handleCheckIn(appointment), the left swipe: returns when the
\* listed status is checked_in or completed.
StaffSchedule_handleCheckIn(id) ==
    /\ ViewStatus("schedule", id) \notin {"none", "checked_in", "completed"}
    /\ ScheduleUpdate("StaffSchedule.handleCheckIn", id, "checked_in")

\* StaffSchedule.handleCheckIn(appointment) as a function of the object it
\* is handed, whatever list that object came from: returns when the
\* object's status is checked_in or completed; else the UPDATE by id.
StaffSchedule_handleCheckInGiven(id) ==
    /\ RowStatus(appointments, id) \notin {"none", "checked_in", "completed"}
    /\ ScheduleUpdate("StaffSchedule.handleCheckIn", id, "checked_in")

\* StaffSchedule.handleCancel(appointment), the right swipe: returns when the
\* listed status is cancelled or completed, or when confirm() is declined.
StaffSchedule_handleCancel(id) ==
    /\ ViewStatus("schedule", id) \notin {"none", "cancelled", "completed"}
    /\ ScheduleUpdate("StaffSchedule.handleCancel", id, "cancelled")

\* StaffSchedule.handleComplete(appointment): its button is rendered when
\* the listed status is checked_in.
StaffSchedule_handleComplete(id) ==
    /\ ViewStatus("schedule", id) = "checked_in"
    /\ ScheduleUpdate("StaffSchedule.handleComplete", id, "completed")

\* StaffScanner.handleCheckIn: returns without a todayAppointment; its button
\* is rendered when the looked-up status is confirmed.  UPDATE status,
\* updated_at by id alone.
StaffScanner_handleCheckIn ==
    /\ statusLeft > 0
    /\ statusLeft' = statusLeft - 1
    /\ staffView["scanner"] # <<>>
    /\ staffView["scanner"][1].status = "confirmed"
    /\ LET id == staffView["scanner"][1].id
       IN /\ appointments' = SetStatus({a \in appointments : a.id = id}, "checked_in", now)
          /\ staffView' = [staffView EXCEPT !["scanner"] = SetViewStatus(@, id, "checked_in")]
          /\ lastStatus' = StatusReturned("StaffScanner.handleCheckIn", "scanner", id,
                                           "checked_in")
    /\ UNCHANGED <<envVars, bindDb, bindCtl, current_appointments, shift_updated_at,
                   seqAppt, via, bookCtl, hookOptions, gate, adminAuth>>

\* ------------------------------------------------------- register_user

\* The organization check without its is_active condition.
OrgActiveAnyRow(o) == \E x \in DOMAIN organizations : x = o

\* IF NOT EXISTS (SELECT 1 FROM organizations WHERE id = p_organization_id
\*   AND is_active = true)
OrgActive(o) ==
    \E x \in DOMAIN organizations : x = o /\ organizations[x].is_active = TRUE

\* The lookup of the user id left out: every caller is taken for new.
SelectUserIdNone(line) == 0

\* SELECT id INTO v_user_id FROM users WHERE line_user_id = p_line_user_id
\* (0 when no row matches)
SelectUserId(line) ==
    IF \E u \in users : u.line_user_id = line
    THEN (CHOOSE u \in users : u.line_user_id = line).id
    ELSE 0

\* The unique index on users.line_user_id (the conflict target of the
\* client's upsert): an INSERT of a line_user_id a committed row holds fails.
UsersUniqueViolation(line) == \E u \in users : u.line_user_id = line

\* The key (organization_id, user_id) of organization_users (the conflict
\* target of the client's upsert): an INSERT of a held pair fails.
OrgUsersUniqueViolation(uid, o) ==
    \E ou \in organization_users : ou.user_id = uid /\ ou.organization_id = o

\* The users rows a running register_user has written and not committed:
\* another writer of the same row, or inserter of the same line_user_id,
\* waits until that transaction ends.
PendingLines(c) ==
    IF btx[c].pc = "ou_write" THEN {btx[c].req.line_user_id} ELSE {}

UserRowFree(c, line) == \A c2 \in Clients \ {c} : line \notin PendingLines(c2)

\* History: whether the tenant of a bind call exists and is active when the
\* call begins, and the two tables as they are then.
TenantActive(o) == o \in Orgs /\ organizations[o].is_active

Snapshot == [users |-> users, organization_users |-> organization_users]

\* History: no other bind call is in flight when the call of session c
\* begins; and the calls in flight, marked as overlapped by it.
NoOtherInFlight(c) == \A c2 \in Clients \ {c} : btx[c2].pc = "idle"

Overlapped(c) ==
    [c2 \in Clients |->
        IF c2 # c /\ btx[c2].pc # "idle"
        THEN [btx[c2] EXCEPT !.alone = FALSE]
        ELSE btx[c2]]

\* What a bind call returned: (success, user_id, message), or the error
\* thrown; with the tables before the call and after it, and whether it
\* ran with no other bind call in flight.
BindReturned(kind, ver, b, tenantOk, pre, alone, result, uid, postU, postOU) ==
    [kind |-> kind, ver |-> ver, req |-> b, tenantOk |-> tenantOk, pre |-> pre,
     alone |-> alone, result |-> result, user_id |-> uid,
     post |-> [users |-> postU, organization_users |-> postOU],
     n |-> lastBind.n + 1]

\* The call begins: the organization check, then the SELECT of the user id.
\* A missing or deactivated organization returns (false, NULL, message).
RegisterBegin(c, b) ==
    /\ btx[c].pc = "idle"
    /\ bindLeft > 0
    /\ bindLeft' = bindLeft - 1
    /\ IF ~OrgActive(b.organization_id)
       THEN /\ lastBind' = BindReturned("register_user", migration, b,
                                TenantActive(b.organization_id), Snapshot,
                                NoOtherInFlight(c),
                                "TenantInactive", 0, users, organization_users)
            /\ prevBind' = lastBind
            /\ UNCHANGED btx
       ELSE /\ btx' = [Overlapped(c) EXCEPT ![c] =
                        [pc |-> "user_write", kind |-> "register_user",
                         ver |-> migration, req |-> b, started |-> now,
                         v_user_id |-> SelectUserId(b.line_user_id),
                         newUser |-> {}, ouExists |-> FALSE,
                         tenantOk |-> TenantActive(b.organization_id),
                         pre |-> Snapshot, alone |-> NoOtherInFlight(c)]]
            /\ UNCHANGED <<lastBind, prevBind>>
    /\ UNCHANGED <<envVars, bindDb, bookDb, bookCtl, statusLeft, staffVars, gate, adminAuth>>

\* INSERT INTO users (line_user_id, line_display_name, line_picture_url)
\*   ... RETURNING id
NewUserRow(id, b, registered, t) ==
    [id |-> id, line_user_id |-> b.line_user_id,
     line_display_name |-> b.line_display_name,
     line_picture_url |-> b.line_picture_url,
     is_registered |-> registered, updated_at |-> t]

\* UPDATE users SET line_display_name, line_picture_url, updated_at = NOW()
\*   WHERE id = v_user_id
RefreshUsers(uid, b, t) ==
    { IF u.id = uid
      THEN [u EXCEPT !.line_display_name = b.line_display_name,
                     !.line_picture_url = b.line_picture_url,
                     !.updated_at = t]
      ELSE u : u \in users }

\* The write of the users row (INSERT when the SELECT found none, UPDATE
\* otherwise), pending until commit, then the read of the
\* organization_users row.  An INSERT that meets a committed row of the
\* same line_user_id raises unique_violation: the procedure ends with an
\* exception and everything is rolled back.
RegisterWriteUser(c) ==
    /\ btx[c].pc = "user_write"
    /\ LET t == btx[c]
           b == t.req
       IN /\ UserRowFree(c, b.line_user_id)
          /\ IF t.v_user_id = 0 /\ UsersUniqueViolation(b.line_user_id)
             THEN /\ lastBind' = BindReturned("register_user", t.ver, b, t.tenantOk,
                                      t.pre, t.alone, "error", 0, users, organization_users)
                  /\ prevBind' = lastBind
                  /\ btx' = [btx EXCEPT ![c] = IdleTx]
                  /\ UNCHANGED seqUser
             ELSE IF t.v_user_id = 0
             THEN /\ seqUser' = seqUser + 1
                  /\ btx' = [btx EXCEPT
                        ![c].pc = "ou_write",
                        ![c].v_user_id = seqUser + 1,
                        ![c].newUser = {NewUserRow(seqUser + 1, b, FALSE, t.started)},
                        ![c].ouExists = FALSE]
                  /\ UNCHANGED <<lastBind, prevBind>>
             ELSE /\ btx' = [btx EXCEPT
                        ![c].pc = "ou_write",
                        ![c].ouExists =
                            OrgUsersUniqueViolation(t.v_user_id, b.organization_id)]
                  /\ UNCHANGED <<seqUser, lastBind, prevBind>>
    /\ UNCHANGED <<envVars, users, organization_users, bindLeft, bookDb, bookCtl,
                   statusLeft, staffVars, gate, adminAuth>>

\* INSERT INTO organization_users (user_id, organization_id,
\*   customer_real_name, customer_phone, is_bound, role) VALUES (..., true,
\*   'customer')    (002 names no role: the column's default)
NewOrgUserRow(uid, b, t) ==
    [user_id |-> uid, organization_id |-> b.organization_id,
     customer_real_name |-> b.real_name, customer_phone |-> b.phone,
     is_bound |-> TRUE, role |-> "customer", updated_at |-> t]

\* The rebind written as an INSERT of a second row instead of an UPDATE.
RebindOrgUsersAsInsert(uid, b, ver, t) ==
    organization_users \cup {NewOrgUserRow(uid, b, t)}

\* UPDATE organization_users SET customer_real_name, customer_phone,
\*   is_bound = true [002: , updated_at = NOW()] WHERE user_id = v_user_id
\*   AND organization_id = p_organization_id
RebindOrgUsers(uid, b, ver, t) ==
    { IF ou.user_id = uid /\ ou.organization_id = b.organization_id
      THEN [ou EXCEPT !.customer_real_name = b.real_name,
                      !.customer_phone = b.phone,
                      !.is_bound = TRUE,
                      !.updated_at = IF ver = 2 THEN t ELSE @]
      ELSE ou : ou \in organization_users }

\* The users table once the transaction's pending users write is applied.
UsersAfter(t) ==
    IF t.newUser # {} THEN users \cup t.newUser
    ELSE RefreshUsers(t.v_user_id, t.req, t.started)

\* The write of the organization_users row (UPDATE when the read found
\* one, INSERT otherwise), RETURN QUERY SELECT true, ..., and the commit.
\* An INSERT that meets a committed row of the same pair raises
\* unique_violation and everything is rolled back.
RegisterWriteBindingCommit(c) ==
    /\ btx[c].pc = "ou_write"
    /\ btx[c].kind = "register_user"
    /\ LET t == btx[c]
           b == t.req
       IN IF ~t.ouExists /\ OrgUsersUniqueViolation(t.v_user_id, b.organization_id)
          THEN /\ lastBind' = BindReturned("register_user", t.ver, b, t.tenantOk,
                                   t.pre, t.alone, "error", 0, users, organization_users)
               /\ UNCHANGED <<users, organization_users>>
          ELSE /\ users' = UsersAfter(t)
               /\ organization_users' =
                    IF t.ouExists
                    THEN RebindOrgUsers(t.v_user_id, b, t.ver, t.started)
                    ELSE organization_users \cup
                            {NewOrgUserRow(t.v_user_id, b, t.started)}
               /\ lastBind' = BindReturned("register_user", t.ver, b, t.tenantOk,
                                   t.pre, t.alone, "success", t.v_user_id,
                                   users', organization_users')
    /\ prevBind' = lastBind
    /\ btx' = [btx EXCEPT ![c] = IdleTx]
    /\ UNCHANGED <<envVars, seqUser, bindLeft, bookDb, bookCtl, statusLeft, staffVars, gate, adminAuth>>

\* The transaction fails before its commit (connection lost, statement
\* cancelled): everything pending is rolled back and the caller gets no
\* result ("aborted").
RegisterRollback(c) ==
    /\ btx[c].pc \in {"user_write", "ou_write"}
    /\ btx[c].kind = "register_user"
    /\ lastBind' = BindReturned("register_user", btx[c].ver, btx[c].req,
                        btx[c].tenantOk, btx[c].pre, btx[c].alone, "aborted", 0,
                        users, organization_users)
    /\ prevBind' = lastBind
    /\ btx' = [btx EXCEPT ![c] = IdleTx]
    /\ UNCHANGED <<envVars, bindDb, bindLeft, bookDb, bookCtl, statusLeft, staffVars, gate, adminAuth>>

\* ------------------------------------------------- registerNewUser (client)

\* supabase.from('users').upsert({line_user_id, line_display_name,
\*   line_picture_url, is_registered: true}, {onConflict: 'line_user_id'})
\* One statement, committed on its own.
UpsertUsers(b, t) ==
    IF \E u \in users : u.line_user_id = b.line_user_id
    THEN { IF u.line_user_id = b.line_user_id
           THEN [u EXCEPT !.line_display_name = b.line_display_name,
                          !.line_picture_url = b.line_picture_url,
                          !.is_registered = TRUE]
           ELSE u : u \in users }
    ELSE users \cup {NewUserRow(seqUser + 1, b, TRUE, t)}

\* Step 1 of registerNewUser: the users upsert succeeds and returns the row.
registerNewUserUpsertUser(c, b) ==
    /\ btx[c].pc = "idle"
    /\ bindLeft > 0
    /\ bindLeft' = bindLeft - 1
    /\ UserRowFree(c, b.line_user_id)
    /\ users' = UpsertUsers(b, now)
    /\ seqUser' = IF \E u \in users : u.line_user_id = b.line_user_id
                  THEN seqUser ELSE seqUser + 1
    /\ btx' = [Overlapped(c) EXCEPT ![c] =
                [pc |-> "client_bind", kind |-> "registerNewUser", ver |-> 0,
                 req |-> b, started |-> now,
                 v_user_id |-> (CHOOSE u \in users' :
                                    u.line_user_id = b.line_user_id).id,
                 newUser |-> {}, ouExists |-> FALSE,
                 tenantOk |-> TenantActive(b.organization_id),
                 pre |-> Snapshot, alone |-> NoOtherInFlight(c)]]
    /\ UNCHANGED <<envVars, organization_users, lastBind, prevBind, bookDb, bookCtl,
                   statusLeft, staffVars, gate, adminAuth>>

\* Step 1 fails (userError, the request is lost: "aborted"):
\*   throw new Error('建立使用者失敗')
registerNewUserUserError(c, b) ==
    /\ btx[c].pc = "idle"
    /\ bindLeft > 0
    /\ bindLeft' = bindLeft - 1
    /\ lastBind' = BindReturned("registerNewUser", 0, b,
                        TenantActive(b.organization_id), Snapshot,
                        NoOtherInFlight(c), "aborted", 0,
                        users, organization_users)
    /\ prevBind' = lastBind
    /\ UNCHANGED <<envVars, bindDb, btx, bookDb, bookCtl, statusLeft, staffVars, gate, adminAuth>>

\* The organization_users upsert with the conflict target user_id alone: it
\* rewrites the user's rows of every organization.
UpsertOrgUsersAllTenants(uid, b, t) ==
    IF \E ou \in organization_users : ou.user_id = uid
    THEN { IF ou.user_id = uid
           THEN [ou EXCEPT !.role = "customer",
                           !.customer_real_name = b.real_name,
                           !.customer_phone = b.phone,
                           !.is_bound = TRUE]
           ELSE ou : ou \in organization_users }
    ELSE organization_users \cup {NewOrgUserRow(uid, b, t)}

\* supabase.from('organization_users').upsert({organization_id, user_id,
\*   role: 'customer', customer_real_name, customer_phone, is_bound: true},
\*   {onConflict: 'organization_id,user_id'})
UpsertOrgUsers(uid, b, t) ==
    IF \E ou \in organization_users :
            ou.user_id = uid /\ ou.organization_id = b.organization_id
    THEN { IF ou.user_id = uid /\ ou.organization_id = b.organization_id
           THEN [ou EXCEPT !.role = "customer",
                           !.customer_real_name = b.real_name,
                           !.customer_phone = b.phone,
                           !.is_bound = TRUE]
           ELSE ou : ou \in organization_users }
    ELSE organization_users \cup {NewOrgUserRow(uid, b, t)}

\* Step 2 of registerNewUser: the organization_users upsert succeeds and
\* the function returns the row.  (The organization is a row of
\* organizations: the upsert of another id is step 2 failing.)
registerNewUserUpsertOrgUser(c) ==
    /\ btx[c].pc = "client_bind"
    /\ btx[c].req.organization_id \in DOMAIN organizations
    /\ organization_users' = UpsertOrgUsers(btx[c].v_user_id, btx[c].req, now)
    /\ lastBind' = BindReturned("registerNewUser", 0, btx[c].req, btx[c].tenantOk,
                        btx[c].pre, btx[c].alone, "success",
                        btx[c].v_user_id,
                        users, organization_users')
    /\ prevBind' = lastBind
    /\ btx' = [btx EXCEPT ![c] = IdleTx]
    /\ UNCHANGED <<envVars, users, seqUser, bindLeft, bookDb, bookCtl, statusLeft, staffVars, gate, adminAuth>>

\* Step 2 fails (orgUserError: the request is lost, "aborted", or the
\* organization id is no row of organizations, "error"):
\*   throw new Error('綁定組織失敗').  The users row written by step 1 stays.
registerNewUserOrgUserError(c) ==
    /\ btx[c].pc = "client_bind"
    /\ lastBind' = BindReturned("registerNewUser", 0, btx[c].req, btx[c].tenantOk,
                        btx[c].pre, btx[c].alone,
                        IF btx[c].req.organization_id \in DOMAIN organizations
                        THEN "aborted" ELSE "error",
                        0, users, organization_users)
    /\ prevBind' = lastBind
    /\ btx' = [btx EXCEPT ![c] = IdleTx]
    /\ UNCHANGED <<envVars, bindDb, bindLeft, bookDb, bookCtl, statusLeft, staffVars, gate, adminAuth>>

\* ------------------------------------------------ check_user_registration

\* The identities a registration check may be asked about: the seeded ones,
\* the one bind calls create, and one that never gets a users row.
CheckedLines == {"Ua", "Ub", "Uc", "Ud"}

\* The columns a check returns: is_registered, user_id, real_name, phone
\* ("NULL" where the left join found no organization_users row).
CheckRow(flag, uid, real_name, phone) ==
    [is_registered |-> flag, user_id |-> uid, real_name |-> real_name, phone |-> phone]

\* 002: SELECT ou.is_registered, u.id ... FROM users u JOIN organization_users
\* ou ON u.id = ou.user_id WHERE u.line_user_id = p_line_user_id AND
\* ou.organization_id = p_organization_id LIMIT 1.  The rows the query
\* matches; LIMIT 1 returns one of them, or no row when there is none.
check_user_registration002(line, o) ==
    { CheckRow(ou.is_bound, u.id, ou.customer_real_name, ou.customer_phone) :
        <<u, ou>> \in { p \in users \X organization_users :
                          /\ p[1].id = p[2].user_id
                          /\ p[1].line_user_id = line
                          /\ p[2].organization_id = o } }

\* The 003 query with the organization condition dropped from its join.
check_user_registration003AnyOrg(line, o) ==
    LET matched(u) == { ou \in organization_users : u.id = ou.user_id }
    IN UNION { IF matched(u) = {}
               THEN { CheckRow(FALSE, u.id, "NULL", "NULL") }
               ELSE { CheckRow(ou.is_bound, u.id, ou.customer_real_name,
                               ou.customer_phone) : ou \in matched(u) } :
               u \in { x \in users : x.line_user_id = line } }

\* 003: SELECT COALESCE(ou.is_bound, false) as is_registered, u.id ... FROM
\* users u LEFT JOIN organization_users ou ON u.id = ou.user_id AND
\* ou.organization_id = p_organization_id WHERE u.line_user_id =
\* p_line_user_id LIMIT 1.  A users row without a matching
\* organization_users row is returned with is_registered false.
check_user_registration003(line, o) ==
    LET matched(u) == { ou \in organization_users :
                          u.id = ou.user_id /\ ou.organization_id = o }
    IN UNION { IF matched(u) = {}
               THEN { CheckRow(FALSE, u.id, "NULL", "NULL") }
               ELSE { CheckRow(ou.is_bound, u.id, ou.customer_real_name,
                               ou.customer_phone) : ou \in matched(u) } :
               u \in { x \in users : x.line_user_id = line } }

\* checkUserRegistration of the client library: users by line_user_id with
\* .single(), null on error or no row; then organization_users by user_id
\* and organization_id with .single(), null on error or no row; else the
\* organization_users row.  .single() fails unless exactly one row matches.
checkUserRegistration(line, o) ==
    LET us == { u \in users : u.line_user_id = line }
        ous == { ou \in organization_users :
                   /\ ou.organization_id = o
                   /\ \E u \in us : ou.user_id = u.id }
    IN IF Cardinality(us) # 1 \/ Cardinality(ous) # 1
       THEN {}
       ELSE { CheckRow(ou.is_bound, ou.user_id, ou.customer_real_name,
                       ou.customer_phone) : ou \in ous }

\* What a caller reads from the rows a check may return: no row (the
\* endpoint's 404, the library's null) and a row whose flag is false are
\* NotBound, a row whose flag is true is Bound.  None of the three checks
\* raises on an absent row.
CheckOutcomes(rows) ==
    IF rows = {} THEN {"NotBound"}
    ELSE { IF r.is_registered THEN "Bound" ELSE "NotBound" : r \in rows }

\* --------------------------------------------------------- identity gateway

\* checkRegistrationStatus: 404 -> null; a non-OK status throws inside the
\* try and the catch returns null; a rejected fetch -> null; else the body.
\* The OrganizationUser is "bound" / "unbound" by its isBound, or "null".
checkRegistrationStatus(response) ==
    IF response \in {"bound", "unbound"} THEN response ELSE "null"

\* identityGateway with isRegistered = organizationUser !== null, the bound
\* flag not consulted.
identityGatewayAnyRow(liffOk, hasProfile, hasToken, response) ==
    LET defaultResult == [NoResult EXCEPT !.isSet = TRUE]
        organizationUser == checkRegistrationStatus(response)
        isRegistered == organizationUser # "null"
    IN IF ~liffOk \/ ~hasProfile THEN defaultResult
       ELSE IF ~hasToken THEN [defaultResult EXCEPT !.profile = TRUE]
       ELSE [isSet |-> TRUE, isAuthenticated |-> TRUE, isRegistered |-> isRegistered,
             requiresOnboarding |-> ~isRegistered, profile |-> TRUE,
             organizationUser |-> organizationUser]

\* identityGateway(): defaultResult when initializeLiff throws or there is
\* no profile; defaultResult with the profile when there is no access
\* token; else isAuthenticated with isRegistered = organizationUser !==
\* null && organizationUser.isBound, requiresOnboarding = !isRegistered.
identityGateway(liffOk, hasProfile, hasToken, response) ==
    LET defaultResult == [NoResult EXCEPT !.isSet = TRUE]
        organizationUser == checkRegistrationStatus(response)
        isRegistered == organizationUser = "bound"
    IN IF ~liffOk \/ ~hasProfile THEN defaultResult
       ELSE IF ~hasToken THEN [defaultResult EXCEPT !.profile = TRUE]
       ELSE [isSet |-> TRUE, isAuthenticated |-> TRUE, isRegistered |-> isRegistered,
             requiresOnboarding |-> ~isRegistered, profile |-> TRUE,
             organizationUser |-> organizationUser]

\* The runGateway effect: setGatewayResult(result); onAuthSuccess when
\* authenticated and registered (the provider sets its context value, which
\* makes the effect due again); finally setIsLoading(false).
runGateway(liffOk, hasProfile, hasToken, response) ==
    LET result == identityGateway(liffOk, hasProfile, hasToken, response)
    IN /\ gate.effectPending
       /\ ~gate.isSubmitting
       /\ gate' = [gate EXCEPT
                     !.gatewayResult = result,
                     !.isLoading = FALSE,
                     !.effectPending = result.isAuthenticated /\ result.isRegistered,
                     !.checked = IF liffOk /\ hasProfile /\ hasToken
                                 THEN response ELSE "notAsked",
                     !.submitted = "none"]
       /\ UNCHANGED <<envVars, bindDb, bindCtl, bookDb, bookCtl, statusLeft, staffVars, adminAuth>>

\* The render logic of the first version: loading; the error screen unless
\* gatewayResult?.isAuthenticated; the onboarding modal alone when
\* requiresOnboarding && profile; else the children.
Screen1(g) ==
    IF g.isLoading THEN "loading"
    ELSE IF ~(g.gatewayResult.isSet /\ g.gatewayResult.isAuthenticated) THEN "authError"
    ELSE IF g.gatewayResult.requiresOnboarding /\ g.gatewayResult.profile THEN "onboarding"
    ELSE "children"

\* The render logic of the forced-registration version: the third branch,
\* !isRegistered && profile, renders {children} inside a blurred,
\* pointer-events-none div under the ForcedRegistrationModal.
Screen2(g) ==
    IF g.isLoading THEN "loading"
    ELSE IF ~(g.gatewayResult.isSet /\ g.gatewayResult.isAuthenticated) THEN "authError"
    ELSE IF ~g.gatewayResult.isRegistered /\ g.gatewayResult.profile
         THEN "onboardingOverChildren"
    ELSE "children"

Screen(g) == IF g.version = 1 THEN Screen1(g) ELSE Screen2(g)

\* {children} is part of what the gate renders: the feature routes under
\* LiffLayout are mounted and run their effects.
ChildrenMounted(g) == Screen(g) \in {"onboardingOverChildren", "children"}

\* handleRegistrationSubmit up to its await: the form is shown and not
\* submitting; returns without a profile; setIsSubmitting(true);
\* setRegistrationError(null).
handleRegistrationSubmitBegin ==
    /\ Screen(gate) \in {"onboarding", "onboardingOverChildren"}
    /\ ~gate.isSubmitting
    /\ gate.gatewayResult.profile
    /\ gate.submits < MaxSubmits
    /\ gate' = [gate EXCEPT !.isSubmitting = TRUE, !.registrationError = FALSE,
                             !.submitted = "none", !.submits = @ + 1]
    /\ UNCHANGED <<envVars, bindDb, bindCtl, bookDb, bookCtl, statusLeft, staffVars, adminAuth>>

\* registerUser: throws without an access token; throws on a non-OK
\* response and when fetch rejects; else returns the body, whatever it says.
registerUserThrows(hasToken, response) ==
    ~hasToken \/ response \in {"httpError", "networkError"}

\* handleRegistrationSubmit from its await on: when registerUser returned,
\* gatewayResult becomes {...gatewayResult, isRegistered: true,
\* requiresOnboarding: false, organizationUser} and onRegistrationComplete
\* runs (the provider sets its context value); when it threw,
\* setRegistrationError(message); finally setIsSubmitting(false).
handleRegistrationSubmitEnd(hasToken, response) ==
    /\ gate.isSubmitting
    /\ gate' =
         IF registerUserThrows(hasToken, response)
         THEN [gate EXCEPT !.isSubmitting = FALSE, !.registrationError = TRUE,
                           !.submitted = IF hasToken THEN response ELSE "noToken"]
         ELSE [gate EXCEPT !.isSubmitting = FALSE,
                           !.gatewayResult = [@ EXCEPT !.isRegistered = TRUE,
                                                       !.requiresOnboarding = FALSE,
                                                       !.organizationUser = response],
                           !.effectPending = TRUE,
                           !.submitted = response]
    /\ UNCHANGED <<envVars, bindDb, bindCtl, bookDb, bookCtl, statusLeft, staffVars, adminAuth>>

\* window.location.reload() (the button of the error screen, or the user):
\* the component is mounted anew.
reload ==
    /\ ~gate.isLoading
    /\ gate' = [MountedGate(gate.version) EXCEPT !.submits = gate.submits]
    /\ UNCHANGED <<envVars, bindDb, bindCtl, bookDb, bookCtl, statusLeft, staffVars, adminAuth>>

\* ------------------------------------------------------ tenant management

\* TenantManagement.toggleTenantStatus: UPDATE organizations SET is_active =
\*   !org.is_active WHERE id = org.id
toggleTenantStatus(o) ==
    /\ organizations' = [organizations EXCEPT ![o].is_active = ~@]
    /\ UNCHANGED <<now, migration, bindDb, bindCtl, bookDb, bookCtl, statusLeft, staffVars, gate, adminAuth>>

\* ------------------------------------------------------------------ clock

Tick ==
    /\ now < MaxNow
    /\ now' = now + 1
    /\ UNCHANGED <<migration, organizations, bindDb, bindCtl, bookDb, bookCtl,
                   statusLeft, staffVars, gate, adminAuth>>

\* ---------------------------------------------------------- specifications

\* The booking races: two sessions, the requests of principals 1 and 2 for
\* the two shifts of doctor 1 in organization 1 (capacity 1 and MaxCap) and
\* a request of principal 2 for organization 2, where its Binding is not
\* bound; one bind request of a new identity.
RaceRequests ==
    { r \in ReserveRequests :
        \/ /\ r.organization_id = 1
           /\ r.user_id \in {1, 2}
           /\ r.treatment_id = 1
           /\ r.shift_id \in {1, 2}
        \/ /\ r.organization_id = 2
           /\ r.user_id = 2
           /\ r.treatment_id = 2
           /\ r.shift_id = 3 }

RaceBinds ==
    { b \in BindRequests :
        b.line_user_id = "Uc" /\ b.organization_id = 2 /\ b.real_name = "A" }

Next ==
    \/ \E c \in Clients, r \in RaceRequests : Begin002(c, r)
    \/ \E c \in Clients : Lock002(c)
    \/ \E c \in Clients : Insert002(c)
    \/ \E c \in Clients : Increment002(c)
    \/ \E c \in Clients : Commit002(c)
    \/ \E c \in Clients : Rollback002(c)
    \/ \E c \in Clients, r \in RaceRequests : Begin003(c, r)
    \/ \E c \in Clients : InsertCommit003(c)
    \/ \E c \in Clients : Rollback003(c)
    \/ ApplyMigration003
    \/ \E r \in RaceRequests : handleSubmit(r)
    \/ \E org \in {1, 2}, id \in 1..MaxReserveCalls, st \in Statuses :
            updateAppointmentStatus(org, id, st)
    \/ \E b \in RaceBinds : RegisterBegin(1, b)
    \/ RegisterWriteUser(1)
    \/ RegisterWriteBindingCommit(1)
    \/ RegisterRollback(1)

Spec == Init /\ [][Next]_vars

\* Every reserve request, one session: the calls run one after another.
NextCalls ==
    \/ \E r \in ReserveRequests : Begin002(1, r)
    \/ Lock002(1)
    \/ Insert002(1)
    \/ Increment002(1)
    \/ Commit002(1)
    \/ \E r \in ReserveRequests : Begin003(1, r)
    \/ InsertCommit003(1)
    \/ ApplyMigration003

SpecCalls == Init /\ [][NextCalls]_vars

\* Every bind request on both bind paths, two sessions, the clock, and the
\* platform operator switching tenants off and on.
NextBind ==
    \/ \E c \in Clients, b \in BindRequests : RegisterBegin(c, b)
    \/ \E c \in Clients : RegisterWriteUser(c)
    \/ \E c \in Clients : RegisterWriteBindingCommit(c)
    \/ \E c \in Clients : RegisterRollback(c)
    \/ \E c \in Clients, b \in BindRequests : registerNewUserUpsertUser(c, b)
    \/ \E c \in Clients, b \in BindRequests : registerNewUserUserError(c, b)
    \/ \E c \in Clients : registerNewUserUpsertOrgUser(c)
    \/ \E c \in Clients : registerNewUserOrgUserError(c)
    \/ \E o \in ToggledOrgs : toggleTenantStatus(o)
    \/ ApplyMigration003
    \/ Tick

SpecBind == Init /\ [][NextBind]_vars

\* The staff pages: reservations made through create_appointment (002, one
\* session), the three pages fetching their lists, and every staff
\* status-change entry point, MaxStaffOps changes in all.
AppointmentIds == 1..MaxReserveCalls

StaffRequests ==
    { r \in RaceRequests :
        \/ r.user_id = 1 /\ r.shift_id = 1
        \/ r.user_id = 2 /\ r.shift_id = 2 }

StartDates == {NoDate, 1}

EndDates == {NoDate, 0}

Days == {0, 1}

InitStaff == InitDb /\ statusLeft = MaxStaffOps /\ gate = MountedGate(2)

NextStaff ==
    \/ \E r \in StaffRequests : Begin002(1, r)
    \/ Lock002(1)
    \/ Insert002(1)
    \/ Increment002(1)
    \/ Commit002(1)
    \/ \E org \in {1, 2} : fetchAppointments(org, NoDate, NoDate)
    \/ \E d \in Days : StaffSchedule_fetchAppointments(d)
    \/ \E u \in UserIds : StaffScanner_lookupMember(u)
    \/ \E id \in AppointmentIds, st \in Statuses :
            updateAppointmentStatus(hookOptions.organizationId, id, st)
    \/ \E id \in AppointmentIds, st \in Statuses : AppointmentDetailModal_updateStatus(id, st)
    \/ \E id \in AppointmentIds : StaffSchedule_handleCheckIn(id)
    \/ \E id \in AppointmentIds : StaffSchedule_handleCancel(id)
    \/ \E id \in AppointmentIds : StaffSchedule_handleComplete(id)
    \/ StaffScanner_handleCheckIn

SpecStaff == InitStaff /\ [][NextStaff]_vars

\* Two tenants' reservations and status changes asked for by id: principal
\* 2 binds to organization 2 and reserves there, principal 1 reserves in the
\* staff pages' organization; the hook (for either organization) and
\* StaffSchedule.handleCheckIn are handed any existing reservation id.
TenantBinds ==
    { b \in BindRequests :
        b.line_user_id = "Ub" /\ b.organization_id = 2 /\ b.real_name = "A" }

TenantRequests ==
    { r \in RaceRequests :
        \/ r.user_id = 1 /\ r.shift_id = 1
        \/ r.organization_id = 2 }

NextTenant ==
    \/ \E b \in TenantBinds : RegisterBegin(1, b)
    \/ RegisterWriteUser(1)
    \/ RegisterWriteBindingCommit(1)
    \/ \E r \in TenantRequests : Begin002(1, r)
    \/ Lock002(1)
    \/ Insert002(1)
    \/ Increment002(1)
    \/ Commit002(1)
    \/ \E org \in {1, 2} : fetchAppointments(org, NoDate, NoDate)
    \/ \E id \in AppointmentIds, st \in Statuses :
            updateAppointmentStatus(hookOptions.organizationId, id, st)
    \/ \E id \in AppointmentIds : StaffSchedule_handleCheckInGiven(id)

SpecTenant == InitStaff /\ [][NextTenant]_vars

\* The listings: reservations of both principals on both shifts of the
\* staff pages' organization, and the three pages fetching their lists.
ListRequests == { r \in RaceRequests : r.organization_id = StaffOrg }

NextList ==
    \/ \E r \in ListRequests : Begin002(1, r)
    \/ Lock002(1)
    \/ Insert002(1)
    \/ Increment002(1)
    \/ Commit002(1)
    \/ \E org \in {1, 2}, s \in StartDates, e \in EndDates : fetchAppointments(org, s, e)
    \/ \E d \in Days : StaffSchedule_fetchAppointments(d)
    \/ \E u \in UserIds : StaffScanner_lookupMember(u)

SpecList == Init /\ [][NextList]_vars

\* The identity gateway, in both versions of the component, with every
\* outcome of LIFF and every answer of the two endpoints.
InitGate == InitDb /\ statusLeft = MaxStatusOps /\ gate \in {MountedGate(1), MountedGate(2)}

NextGate ==
    \/ \E liffOk, hasProfile, hasToken \in BOOLEAN, response \in CheckResponses :
            runGateway(liffOk, hasProfile, hasToken, response)
    \/ handleRegistrationSubmitBegin
    \/ \E hasToken \in BOOLEAN, response \in RegisterResponses :
            handleRegistrationSubmitEnd(hasToken, response)
    \/ reload

SpecGate == InitGate /\ [][NextGate]_vars

\* ------------------------------------------------------ staff permissions

\* type StaffRole
StaffRoles == {"staff", "super_general", "super_senior", "admin"}

\* What the role column may hold when a staff record is loaded: the value
\* is cast (credentials.role as StaffRole, data.role as StaffRole), not
\* checked, so a role outside StaffRole reaches the permission check.
LoadedRoles == StaffRoles \cup {"customer", "manager"}

\* A JavaScript property read: the value, or undefined.
Lookup(table, key) ==
    IF key \in DOMAIN table
    THEN [defined |-> TRUE, n |-> table[key]]
    ELSE [defined |-> FALSE, n |-> 0]

\* v || 0
OrZero(v) == IF v.defined /\ v.n # 0 THEN v.n ELSE 0

\* a >= b on numbers that may be undefined: undefined converts to NaN and
\* every comparison with NaN is false.
GeqJs(a, b) == a.defined /\ b.defined /\ a.n >= b.n

\* The hierarchy with two levels exchanged.
roleHierarchySwapped ==
    [r \in StaffRoles |->
        CASE r = "staff" -> 1
          [] r = "super_general" -> 3
          [] r = "super_senior" -> 2
          [] r = "admin" -> 4]

\* useStaffAuth.ts: const roleHierarchy = {staff: 1, super_general: 2,
\* super_senior: 3, admin: 4}
roleHierarchy ==
    [r \in StaffRoles |->
        CASE r = "staff" -> 1
          [] r = "super_general" -> 2
          [] r = "super_senior" -> 3
          [] r = "admin" -> 4]

\* AdminAuthContext.tsx: const ROLE_HIERARCHY
ROLE_HIERARCHY ==
    [r \in StaffRoles |->
        CASE r = "staff" -> 1
          [] r = "super_general" -> 2
          [] r = "super_senior" -> 3
          [] r = "admin" -> 4]

\* The legacy AdminAuthContext: const ROLE_LEVELS
ROLE_LEVELS ==
    [r \in StaffRoles |->
        CASE r = "staff" -> 1
          [] r = "super_general" -> 2
          [] r = "super_senior" -> 3
          [] r = "admin" -> 4]

\* useStaffAuth.hasPermission(role, requiredLevel):
\*   (roleHierarchy[role] || 0) >= (roleHierarchy[requiredLevel] || 0)
hasPermission(role, requiredLevel) ==
    OrZero(Lookup(roleHierarchy, role)) >= OrZero(Lookup(roleHierarchy, requiredLevel))

\* AdminAuthProvider.hasPermission(requiredRole): if (!staff) return false;
\*   return ROLE_HIERARCHY[staff.role] >= ROLE_HIERARCHY[requiredRole]
AdminAuthProvider_hasPermission(staff, requiredRole) ==
    IF staff = "null" THEN FALSE
    ELSE GeqJs(Lookup(ROLE_HIERARCHY, staff), Lookup(ROLE_HIERARCHY, requiredRole))

\* The legacy AdminAuthProvider.hasPermission, over ROLE_LEVELS.
LegacyAdminAuthProvider_hasPermission(staff, requiredRole) ==
    IF staff = "null" THEN FALSE
    ELSE GeqJs(Lookup(ROLE_LEVELS, staff), Lookup(ROLE_LEVELS, requiredRole))

\* login / checkStaffStatus: setStaff({..., role}) with the role read from
\* the staff table.
AdminAuthProvider_login(role) ==
    /\ adminAuth.staff = "null"
    /\ adminAuth' = [adminAuth EXCEPT !.staff = role]
    /\ UNCHANGED <<envVars, bindDb, bindCtl, bookDb, bookCtl, statusLeft, staffVars, gate>>

\* logout: setStaff(null)
AdminAuthProvider_logout ==
    /\ adminAuth.staff # "null"
    /\ adminAuth' = [adminAuth EXCEPT !.staff = "null"]
    /\ UNCHANGED <<envVars, bindDb, bindCtl, bookDb, bookCtl, statusLeft, staffVars, gate>>

\* A page asks for a permission: what each implementation answers for the
\* loaded staff record.  The hook's function takes the role itself, so it
\* is applied only when a record is loaded.
AskPermission(requiredRole) ==
    /\ adminAuth' =
          [adminAuth EXCEPT !.asked =
              [n |-> 1, staff |-> adminAuth.staff, required |-> requiredRole,
               hook |-> IF adminAuth.staff = "null" THEN FALSE
                        ELSE hasPermission(adminAuth.staff, requiredRole),
               context |-> AdminAuthProvider_hasPermission(adminAuth.staff, requiredRole),
               legacy |-> LegacyAdminAuthProvider_hasPermission(adminAuth.staff,
                                                                requiredRole)]]
    /\ UNCHANGED <<envVars, bindDb, bindCtl, bookDb, bookCtl, statusLeft, staffVars, gate>>

NextRoles ==
    \/ \E role \in LoadedRoles : AdminAuthProvider_login(role)
    \/ AdminAuthProvider_logout
    \/ \E requiredRole \in StaffRoles : AskPermission(requiredRole)

SpecRoles == Init /\ [][NextRoles]_vars

\* ----------------------------------------------------------------- claims

\* The appointments rows that occupy shift s: same organization, same
\* doctor, appointment_time inside the shift's window.
InSlot(a, s) ==
    /\ a.organization_id = ShiftRow(s).organization_id
    /\ a.staff_id = ShiftRow(s).doctor_id
    /\ a.appointment_time >= ShiftRow(s).start_time
    /\ a.appointment_time < ShiftRow(s).end_time

ReservedBy(s, ops) ==
    { a \in appointments : InSlot(a, s) /\ via[a.id] \in ops }

NoReserveInFlight == \A c \in Clients : rtx[c].pc = "idle"

\* C1: for every shift, in every reachable state and under any interleaving
\* of create_appointment, register_user and staff status changes,
\* 0 <= current_appointments <= max_appointments.
C1_OccupancyWithinCapacity ==
    \A s \in ShiftIds :
        /\ 0 <= current_appointments[s]
        /\ current_appointments[s] <= ShiftRow(s).max_appointments

\* C1 witness: a shift is filled to its capacity and a later
\* create_appointment on it was turned away, after a bind call returned.
C1_FullShiftRejects ==
    /\ last.kind = "create_appointment"
    /\ last.result = "SlotFull"
    /\ current_appointments[last.req.shift_id] =
            ShiftRow(last.req.shift_id).max_appointments
    /\ lastBind.kind = "register_user"

\* C2: N bound principals reserving the same shift of capacity C never
\* obtain more than C reservations from create_appointment, and once no
\* call is in flight the shift's current_appointments is the number of
\* calls that succeeded (min(N, C)).
C2_ExactlyMinSucceed ==
    \A s \in ShiftIds :
        LET made == ReservedBy(s, {"create_appointment_002", "create_appointment_003"})
        IN /\ Cardinality(made) <= ShiftRow(s).max_appointments
           /\ NoReserveInFlight => current_appointments[s] = Cardinality(made)

\* The organizations whose treatment or shift a reserve request names.
TargetOrgs(r) ==
    {TreatmentRow(r.treatment_id).organization_id,
     ShiftRow(r.shift_id).organization_id}

\* A principal bound to tenant A and not to tenant B reserves a treatment
\* or a shift of B.
CrossTenantCall(call) ==
    /\ call.kind = "create_appointment"
    /\ call.boundOrgs # {}
    /\ TargetOrgs(call.req) \ call.boundOrgs # {}

BookingUnchanged ==
    /\ appointments' = appointments
    /\ current_appointments' = current_appointments

\* C3 as claimed: a principal bound to A and not to B gets NotRegistered on
\* every create_appointment that names a treatment or shift of B, whatever
\* organization id it supplies.
C3_AlwaysNotRegistered ==
    CrossTenantCall(last) => last.result = "NotRegistered"

\* C3 as amended: such a call never succeeds and changes neither the
\* appointments nor any shift's occupancy; it returns NotRegistered when
\* the supplied organization is one the principal is not bound to, and
\* OfferingUnavailable or SlotFull when the supplied organization is one it
\* is bound to.
C3_CrossTenantRejected ==
    [][ (last'.n # last.n /\ CrossTenantCall(last')) =>
            /\ BookingUnchanged
            /\ last'.appointment_id = 0
            /\ IF last'.req.organization_id \in last'.boundOrgs
               THEN last'.result \in {"OfferingUnavailable", "SlotFull"}
               ELSE last'.result = "NotRegistered" ]_vars

\* C3 witness: a principal bound to organization 1 supplied organization 1
\* with a treatment of organization 2 and was refused OfferingUnavailable.
C3_OwnTenantForeignOffering ==
    /\ CrossTenantCall(last)
    /\ last.req.organization_id \in last.boundOrgs
    /\ TreatmentRow(last.req.treatment_id).organization_id \notin last.boundOrgs
    /\ last.result = "OfferingUnavailable"

\* C4: create_appointment succeeds only if organization_users holds a row
\* for (user, organization) with is_bound = true when the call is made;
\* otherwise it returns NotRegistered, creates no appointments row and
\* leaves every shift's occupancy as it was.
C4_BoundOrNotRegistered ==
    [][ (last'.n # last.n /\ last'.kind = "create_appointment") =>
            /\ last'.result = "success" =>
                    last'.req.organization_id \in last'.boundOrgs
            /\ last'.req.organization_id \notin last'.boundOrgs =>
                    /\ last'.result = "NotRegistered"
                    /\ last'.appointment_id = 0
                    /\ BookingUnchanged ]_vars

\* C4 witness: a principal whose organization_users row for the
\* organization has is_bound = false was refused NotRegistered.
C4_UnboundRowRefused ==
    /\ last.kind = "create_appointment"
    /\ last.result = "NotRegistered"
    /\ \E ou \in organization_users :
            /\ ou.user_id = last.req.user_id
            /\ ou.organization_id = last.req.organization_id
            /\ ~ou.is_bound

\* C5: every appointments row was produced by a successful
\* create_appointment; no client operation inserts one by another path.
C5_OnlyThroughReserve ==
    \A a \in appointments :
        via[a.id] \in {"create_appointment_002", "create_appointment_003"}

\* C6: no reachable state holds an appointments row whose occupancy
\* increment is missing, or an increment without its row: every shift's
\* current_appointments is the number of appointments rows in it.
C6_RowsMatchOccupancy ==
    \A s \in ShiftIds :
        current_appointments[s] =
            Cardinality({ a \in appointments : InSlot(a, s) })

\* The users rows of a LINE identity, and the organization_users rows of
\* that identity in an organization, in a recorded pair of tables.
PrincipalRows(db, line) == { u \in db.users : u.line_user_id = line }

BindingRows(db, line, o) ==
    { ou \in db.organization_users :
        /\ ou.organization_id = o
        /\ \E u \in PrincipalRows(db, line) : u.id = ou.user_id }

\* A pair of tables without the updated_at columns.
WithoutTimestamps(db) ==
    [users |-> { [u EXCEPT !.updated_at = 0] : u \in db.users },
     organization_users |->
        { [ou EXCEPT !.updated_at = 0] : ou \in db.organization_users }]

\* The last two bind calls were the same call made twice, one after the
\* other and with no other bind call in flight, on the same bind path and
\* an active tenant: the first succeeded, the second found the tables as
\* the first left them and was not cut off.
SameBindTwice ==
    /\ lastBind.kind \in {"register_user", "registerNewUser"}
    /\ prevBind.kind = lastBind.kind
    /\ prevBind.alone
    /\ lastBind.alone
    /\ prevBind.ver = lastBind.ver
    /\ prevBind.req = lastBind.req
    /\ prevBind.tenantOk
    /\ lastBind.tenantOk
    /\ prevBind.result = "success"
    /\ lastBind.pre = prevBind.post
    /\ lastBind.result # "aborted"

BoundOnce(call) ==
    /\ call.result = "success"
    /\ Cardinality(PrincipalRows(call.post, call.req.line_user_id)) = 1
    /\ Cardinality(BindingRows(call.post, call.req.line_user_id,
                               call.req.organization_id)) = 1

\* C7 as claimed: bind called twice in sequence with the same identity,
\* tenant and profile leaves one users row and one organization_users
\* row, both calls succeed, and the state after the second call equals the
\* state after the first.
C7_SecondBindChangesNothing ==
    SameBindTwice => BoundOnce(lastBind) /\ lastBind.post = lastBind.pre

\* C7 as amended: ... and the state after the second call equals the state
\* after the first in every column but updated_at, which register_user
\* sets to the time of the second call.
C7_SecondBindKeepsAllButTimestamps ==
    SameBindTwice =>
        /\ BoundOnce(lastBind)
        /\ WithoutTimestamps(lastBind.post) = WithoutTimestamps(lastBind.pre)

\* C7 witness: the second of two equal register_user calls succeeded
\* and moved updated_at.
C7_SecondBindMovedTimestamp ==
    /\ SameBindTwice
    /\ BoundOnce(lastBind)
    /\ lastBind.post # lastBind.pre

C9_FailedBindChangedNothing ==
    ( /\ lastBind.kind # "none"
      /\ lastBind.n = 1
      /\ bindLeft = MaxBindCalls - 1
      /\ \A c \in Clients : btx[c].pc = "idle"
      /\ lastBind.result # "success" )
        => lastBind.post = lastBind.pre

C11_NoBindingIsNotBound ==
    \A line \in CheckedLines : \A o \in Orgs \cup OrgIds :
        BindingRows(Snapshot, line, o) = {} =>
            /\ CheckOutcomes(check_user_registration002(line, o)) = {"NotBound"}
            /\ CheckOutcomes(check_user_registration003(line, o)) = {"NotBound"}
            /\ CheckOutcomes(checkUserRegistration(line, o)) = {"NotBound"}

\* C11 witness: a bind call created the Principal "Uc" and bound it to one
\* tenant; asked about another tenant, 003 returns its users row with
\* is_registered false and the other two checks return no row.
C11_BoundElsewhereOnly ==
    \E o1, o2 \in OrgIds :
        /\ \E ou \in BindingRows(Snapshot, "Uc", o1) : ou.is_bound
        /\ BindingRows(Snapshot, "Uc", o2) = {}
        /\ check_user_registration003("Uc", o2) # {}
        /\ \A r \in check_user_registration003("Uc", o2) : ~r.is_registered
        /\ check_user_registration002("Uc", o2) = {}
        /\ checkUserRegistration("Uc", o2) = {}

\* C12: a status change issued from a page whose list shows a status that
\* is not the row's current status (the request's fromStatus is stale) fails
\* with InvalidTransition and leaves the row's status as it was.
C12_StaleTransitionFails ==
    (/\ lastStatus.kind # "none"
     /\ lastStatus.observed \in Statuses
     /\ lastStatus.before \in Statuses
     /\ lastStatus.observed # lastStatus.before)
        => /\ lastStatus.result = "InvalidTransition"
           /\ lastStatus.after = lastStatus.before

\* The edges of the reservation lifecycle.
AllowedEdges ==
    { <<"pending", "confirmed">>, <<"confirmed", "checked_in">>,
      <<"checked_in", "completed">>, <<"pending", "cancelled">>,
      <<"confirmed", "cancelled">>, <<"checked_in", "cancelled">> }

\* C13: every change of a reservation's status by a staff operation follows
\* pending -> confirmed -> checked_in -> completed, or goes to cancelled from
\* pending, confirmed or checked_in; completed and cancelled are never left
\* and the status never moves backwards.
C13_StatusFollowsLifecycle ==
    [][\A a \in appointments : \A b \in appointments' :
          (a.id = b.id /\ a.status # b.status)
              => <<a.status, b.status>> \in AllowedEdges]_vars

\* C14: when two staff pages that listed a reservation in the same status
\* issue different status changes one after the other without refetching,
\* the first takes effect and the second fails and leaves the status the
\* first one wrote.
C14_SecondWriterFails ==
    [][(/\ lastStatus.kind # "none"
        /\ lastStatus'.n = lastStatus.n + 1
        /\ lastStatus'.id = lastStatus.id
        /\ lastStatus'.page # lastStatus.page
        /\ lastStatus'.to # lastStatus.to
        /\ lastStatus.observed \in Statuses
        /\ lastStatus'.observed = lastStatus.observed
        /\ lastStatus.before = lastStatus.observed
        /\ lastStatus.to # lastStatus.before
        /\ lastStatus'.to # lastStatus.observed
        /\ lastStatus.after = lastStatus.to)
          => /\ lastStatus'.result # "success"
             /\ lastStatus'.after = lastStatus.to]_vars

\* The ids a listing returns, and its order.
ListedIds(l) == { l[i].id : i \in DOMAIN l }

NoRepeats(l) == \A i, j \in DOMAIN l : i # j => l[i].id # l[j].id

Ascending(l) ==
    \A i, j \in DOMAIN l : i < j => l[i].appointment_time <= l[j].appointment_time

Descending(l) ==
    \A i, j \in DOMAIN l : i < j => l[i].appointment_time >= l[j].appointment_time

\* The reservations of a tenant in a date range / of a principal in a tenant.
IdsOfTenant(o, s, e) ==
    { a.id : a \in { x \in appointments :
        /\ x.organization_id = o
        /\ (s # NoDate => x.appointment_time >= s)
        /\ (e # NoDate => x.appointment_time <= e)
        /\ \E ou \in organization_users :
              ou.user_id = x.user_id /\ ou.organization_id = o } }

IdsOfPrincipal(u, o) ==
    { a.id : a \in { x \in appointments : x.user_id = u /\ x.organization_id = o } }

\* A step of a listing: neither a reserve call nor a status change moves.
ListingStep ==
    /\ staffView' # staffView \/ hookOptions' # hookOptions
    /\ UNCHANGED <<rtx, reserveLeft, statusLeft>>

ListingsAsCoded ==
    /\ \A o \in {1, 2}, s \in StartDates, e \in EndDates :
          \A l \in HookFetch(appointments, [organizationId |-> o, startDate |-> s, endDate |-> e]) :
              ListedIds(l) = IdsOfTenant(o, s, e) /\ NoRepeats(l) /\ Ascending(l)
    /\ \A u \in users : \A o \in {1, 2} :
          /\ \A l \in get_user_appointments(u.line_user_id, o) :
                ListedIds(l) = IdsOfPrincipal(u.id, o) /\ NoRepeats(l) /\ Descending(l)
          /\ \A l \in getUserAppointments(u.id, o) :
                ListedIds(l) = IdsOfPrincipal(u.id, o) /\ NoRepeats(l) /\ Descending(l)

Registered(g) ==
    ~g.isLoading /\ g.gatewayResult.isAuthenticated /\ g.gatewayResult.isRegistered

\* C15: the children of the gate are mounted only while the gateway is
\* Registered; in Initializing, Unauthenticated / AuthFailed and
\* AuthenticatedUnregistered they are not part of what the gate renders.
C15_ChildrenOnlyWhenRegistered == ChildrenMounted(gate) => Registered(gate)

\* C16: after a bind that failed or was rejected - registerUser threw, or
\* the answer reports success = false - the gateway is still
\* AuthenticatedUnregistered: isRegistered is false and registrationError
\* carries the error.
C16_RejectedBindStaysUnregistered ==
    gate.submitted \in {"rejected", "httpError", "networkError", "noToken"}
        => ~gate.gatewayResult.isRegistered /\ gate.registrationError

\* C17: when check-registration failed with anything but 404 (a non-OK
\* status, a network error), the gateway result is not authenticated.
C17_FailedCheckIsNotAuthenticated ==
    gate.checked \in {"httpError", "networkError"} => ~gate.gatewayResult.isAuthenticated

\* C19: the step in which a create_appointment call returns success adds
\* exactly one appointments row - pending, for the tenant, principal,
\* treatment and doctor supplied - and raises the target shift's
\* current_appointments by exactly one; no other row and no other shift's
\* counter changes.
C19_SuccessAddsOneRowOneSlot ==
    [][(/\ last'.n = last.n + 1
        /\ last'.kind = "create_appointment"
        /\ last'.result = "success")
          => /\ \E a \in appointments' \ appointments :
                   /\ appointments' = appointments \cup {a}
                   /\ a.id = last'.appointment_id
                   /\ a.status = "pending"
                   /\ a.organization_id = last'.req.organization_id
                   /\ a.user_id = last'.req.user_id
                   /\ a.treatment_id = last'.req.treatment_id
                   /\ a.staff_id = last'.req.staff_id
             /\ current_appointments' =
                   [current_appointments EXCEPT ![last'.req.shift_id] = @ + 1]]_vars

\* C20: a create_appointment call that meets a serialization conflict is
\* retried inside the booking engine and, when the conflicts persist, ends
\* with a generic try-again rejection: the caller never receives the
\* serialization failure of a first attempt.
C20_ConflictNeverSurfacedDirectly ==
    last.kind = "create_appointment" => last.result # "serialization_failure"

\* C21: a create_appointment call that is past its capacity check - about
\* to insert, to increment, or to commit - holds the row lock of its target
\* shift, and no two such calls are past the check on the same shift at the
\* same time, so the later one decides on the earlier one's increment.
C21_WritesUnderTheShiftLock ==
    /\ \A c \in Clients :
          rtx[c].pc \in {"insert", "increment", "commit", "insert3"}
              => shiftLock[rtx[c].req.shift_id] = c
    /\ \A c1, c2 \in Clients :
          (/\ c1 # c2
           /\ rtx[c1].pc \in {"insert", "increment", "commit", "insert3"}
           /\ rtx[c2].pc \in {"insert", "increment", "commit", "insert3"})
              => rtx[c1].req.shift_id # rtx[c2].req.shift_id

\* C22: create_appointment returns success only for a shift that belongs
\* to the supplied organization and doctor, is available, contains the
\* requested time in [start_time, end_time) and has remaining capacity
\* (max_appointments - current_appointments > 0) when the call commits;
\* otherwise it ends with SlotFull and adds no row.
C22_SuccessNeedsAnOpenSlot ==
    [][(/\ last'.n = last.n + 1
        /\ last'.kind = "create_appointment"
        /\ last'.result = "success")
          => LET s == ShiftRow(last'.req.shift_id)
             IN /\ s.organization_id = last'.req.organization_id
                /\ s.doctor_id = last'.req.staff_id
                /\ s.is_available
                /\ last'.req.appointment_time >= s.start_time
                /\ last'.req.appointment_time < s.end_time
                /\ s.max_appointments - current_appointments[s.id] > 0]_vars

\* The treatment a request names exists, belongs to the organization the
\* request supplies and is active.
OfferingOk(r) ==
    \E t \in treatments :
        /\ t.id = r.treatment_id
        /\ t.organization_id = r.organization_id
        /\ t.is_active

\* C23: a create_appointment call of a bound principal whose treatment is
\* missing, of another organization or inactive returns OfferingUnavailable,
\* adds no appointments row and changes no occupancy; a call that succeeds
\* named an active treatment of the supplied organization and its row
\* records that treatment's duration.
C23_OfferingCheckedBeforeBooking ==
    [][ (last'.n # last.n /\ last'.kind = "create_appointment") =>
            /\ (last'.req.organization_id \in last'.boundOrgs /\ ~OfferingOk(last'.req))
                    => /\ last'.result = "OfferingUnavailable"
                       /\ last'.appointment_id = 0
                       /\ BookingUnchanged
            /\ last'.result = "success"
                    => /\ OfferingOk(last'.req)
                       /\ \E a \in appointments' :
                             /\ a.id = last'.appointment_id
                             /\ a.duration_minutes =
                                   TreatmentRow(last'.req.treatment_id).duration_minutes ]_vars

\* C23 witness: a principal bound to organization 1 asked for the
\* deactivated treatment 3 of organization 1 and was refused
\* OfferingUnavailable.
C23_InactiveOfferingRefused ==
    /\ last.kind = "create_appointment"
    /\ last.req.organization_id \in last.boundOrgs
    /\ last.req.treatment_id = 3
    /\ TreatmentRow(3).organization_id = last.req.organization_id
    /\ ~TreatmentRow(3).is_active
    /\ last.result = "OfferingUnavailable"
    /\ appointments = {}

\* The three registration checks asked about an identity and a tenant.
AllChecks(line, o) ==
    { check_user_registration002(line, o), check_user_registration003(line, o),
      checkUserRegistration(line, o) }

\* Every Binding row of the identity in the tenant has its flag off.
OnlyUnboundRows(line, o) ==
    /\ BindingRows(Snapshot, line, o) # {}
    /\ \A ou \in BindingRows(Snapshot, line, o) : ~ou.is_bound

\* While the Binding row's flag is off: every check reports not registered,
\* the gateway given that answer is authenticated and requires onboarding,
\* and the registration test of create_appointment fails.
UnboundRowIsNotRegistered ==
    \A line \in CheckedLines : \A o \in Orgs \cup OrgIds :
        OnlyUnboundRows(line, o) =>
            /\ \A rows \in AllChecks(line, o) :
                  rows # {} /\ CheckOutcomes(rows) = {"NotBound"}
            /\ LET result == identityGateway(TRUE, TRUE, TRUE, "unbound")
               IN /\ result.isAuthenticated
                  /\ ~result.isRegistered
                  /\ result.requiresOnboarding
            /\ \A u \in PrincipalRows(Snapshot, line) : ~IsRegisteredInOrg(u.id, o)

\* A bind call returns success in this step.
BindSucceeds ==
    /\ lastBind'.n = lastBind.n + 1
    /\ lastBind'.result = "success"

\* C24: the bound flag decides registration: while an identity's Binding
\* row for a tenant has is_bound = false every registration check reports
\* not registered, the gateway requires onboarding and create_appointment's
\* registration test fails; and when a bind call returns success the row's
\* flag is true and every check reports bound with the real name and phone
\* the call supplied.
C24_BoundFlagDecides ==
    /\ []UnboundRowIsNotRegistered
    /\ [][BindSucceeds =>
            \A line \in CheckedLines : \A o \in Orgs \cup OrgIds :
                (line = lastBind'.req.line_user_id /\ o = lastBind'.req.organization_id) =>
                    \A rows \in AllChecks(line, o)' :
                        /\ rows # {}
                        /\ \A r \in rows :
                              /\ r.is_registered
                              /\ r.real_name = lastBind'.req.real_name
                              /\ r.phone = lastBind'.req.phone]_vars

\* C24 witness: a bind call just bound an identity to a tenant for which
\* its Binding row had the flag off before the call; the check now reports
\* bound with the supplied profile.
C24_UnboundRowThenBound ==
    /\ lastBind.kind # "none"
    /\ lastBind.result = "success"
    /\ \E ou \in BindingRows(lastBind.pre, lastBind.req.line_user_id,
                              lastBind.req.organization_id) : ~ou.is_bound
    /\ \A r \in check_user_registration003(lastBind.req.line_user_id,
                                            lastBind.req.organization_id) :
          r.is_registered /\ r.real_name = lastBind.req.real_name

\* The request of the bind call of session c that takes this step.
ActingBind(c) == IF btx[c].pc = "idle" THEN btx'[c].req ELSE btx[c].req

\* Session c's bind call takes this step.
BindActs(c) == btx'[c].pc # btx[c].pc

\* Every Principal row is kept with its id and identity; a row that
\* differs afterwards is the acting identity's and differs only in the
\* columns named by `refreshed`; a row that is new is the acting
\* identity's, which had none.
PrincipalReused(b, refreshed) ==
    /\ \A u \in users :
          \E v \in users' :
              /\ v.id = u.id
              /\ v.line_user_id = u.line_user_id
              /\ v # u => u.line_user_id = b.line_user_id
              /\ \A f \in DOMAIN u \ refreshed : v[f] = u[f]
    /\ \A v \in users' :
          (\A u \in users : u.id # v.id) =>
              /\ v.line_user_id = b.line_user_id
              /\ PrincipalRows(Snapshot, b.line_user_id) = {}

\* The Binding rows that are not the acting identity's row for the
\* request's tenant are the same rows before and after.
OtherBindingsKept(b) ==
    LET mine(db) == BindingRows(db, b.line_user_id, b.organization_id)
    IN organization_users \ mine(Snapshot) = organization_users' \ mine(Snapshot')

\* The frame of one step, for the columns a refresh may touch.
BindFrame(refreshed) ==
    IF \E c \in Clients : BindActs(c)
    THEN \A c \in Clients :
            BindActs(c) => /\ PrincipalReused(ActingBind(c), refreshed)
                           /\ OtherBindingsKept(ActingBind(c))
    ELSE UNCHANGED <<users, organization_users>>

\* C25: a step of a bind call keeps every Principal (id and identity),
\* creates one only for an identity that has none, changes on the acting
\* Principal at most its display name, picture, updated_at and
\* is_registered columns, and leaves every Binding other than the one of
\* (acting Principal, requested tenant) as it was; no other step writes
\* either table.
C25_BindTouchesOnlyItsPair ==
    [][BindFrame({"line_display_name", "line_picture_url",
                  "updated_at", "is_registered"})]_vars

\* C25 as stated: the refresh touches the display metadata only.
C25_RefreshesDisplayMetadataOnly ==
    [][BindFrame({"line_display_name", "line_picture_url"})]_vars

\* C25 witness: a bind call of an existing Principal for a second tenant
\* succeeded; the Principal's bound Binding to the first tenant is the row
\* it was, and it now holds bound Bindings to both.
C25_BoundToTwoTenants ==
    /\ lastBind.kind # "none"
    /\ lastBind.result = "success"
    /\ lastBind.req.line_user_id = "Ua"
    /\ lastBind.req.organization_id = 2
    /\ \A u \in PrincipalRows(Snapshot, "Ua") : u.id = 1
    /\ BindingRows(lastBind.pre, "Ua", 2) = {}
    /\ BindingRows(Snapshot, "Ua", 1) = BindingRows(lastBind.pre, "Ua", 1)
    /\ \E ou \in BindingRows(Snapshot, "Ua", 1) : ou.is_bound
    /\ \E ou \in BindingRows(Snapshot, "Ua", 2) : ou.is_bound
    /\ Cardinality(PrincipalRows(Snapshot, "Ua")) = 1

\* 1 when a reserve call returns success for shift s in this step.
ReserveSucceedsOn(s) ==
    IF /\ last'.n = last.n + 1
       /\ last'.result = "success"
       /\ last'.req.shift_id = s
    THEN 1 ELSE 0

\* 1 when a staff status change cancels, in this step, a reservation
\* that occupies shift s and was not cancelled before.
StaffCancelsOn(s) ==
    IF /\ lastStatus'.n = lastStatus.n + 1
       /\ lastStatus'.before \notin {"none", "cancelled"}
       /\ lastStatus'.after = "cancelled"
       /\ \E a \in appointments : a.id = lastStatus'.id /\ InSlot(a, s)
    THEN 1 ELSE 0

\* C26: in every step each shift's current_appointments moves by +1 when
\* a reserve call succeeds on it, by -1 when staff cancel a reservation
\* that occupies it, and not at all otherwise.
C26_OccupancyFollowsReserveAndCancel ==
    [][\A s \in ShiftIds :
          current_appointments'[s] =
              current_appointments[s] + ReserveSucceedsOn(s) - StaffCancelsOn(s)]_vars

\* The tenant in whose context the status change of this step was issued:
\* the hook's organizationId (staff.organization_id on the admin pages),
\* the configured organization on the StaffSchedule and StaffScanner pages.
CallerTenant ==
    IF lastStatus'.page = "admin" THEN hookOptions.organizationId ELSE StaffOrg

\* C27: a staff status change never changes the status of a reservation of
\* another tenant than the one it was issued for, whatever reservation id
\* it is handed.
C27_StatusChangeStaysInTenant ==
    [][lastStatus'.n = lastStatus.n + 1 =>
          \A a \in appointments :
              RowStatus(appointments', a.id) # a.status =>
                  a.organization_id = CallerTenant]_vars

\* The gateway state the gate is in.  identityGateway returns the same
\* defaultResult for a LIFF that cannot be initialized and for a principal
\* who is not logged in, so Unauthenticated and AuthFailed are one value
\* here.
GatewayState(g) ==
    IF g.isLoading THEN "Initializing"
    ELSE IF ~g.gatewayResult.isAuthenticated THEN "UnauthenticatedOrAuthFailed"
    ELSE IF ~g.gatewayResult.isRegistered THEN "AuthenticatedUnregistered"
    ELSE "Registered"

\* The edges of the gateway state machine within one session.
GatewayEdges ==
    { <<"Initializing", "UnauthenticatedOrAuthFailed">>,
      <<"Initializing", "AuthenticatedUnregistered">>,
      <<"Initializing", "Registered">>,
      <<"AuthenticatedUnregistered", "Registered">> }

\* A step within a session: window.location.reload() mounts the gate anew
\* and begins another one.
SameSession == ~gate'.isLoading

\* isRegistered implies isAuthenticated and a profile.
RegisteredImpliesAuthenticated ==
    gate.gatewayResult.isRegistered =>
        gate.gatewayResult.isAuthenticated /\ gate.gatewayResult.profile

\* C28: within a session the gateway state changes only along
\* Initializing -> Unauthenticated | AuthFailed | AuthenticatedUnregistered
\* | Registered and AuthenticatedUnregistered -> Registered, so Registered
\* is never left; and isRegistered always implies isAuthenticated with a
\* profile.
C28_GatewayEdgesOnly ==
    /\ []RegisteredImpliesAuthenticated
    /\ [][SameSession /\ GatewayState(gate') # GatewayState(gate) =>
            <<GatewayState(gate), GatewayState(gate')>> \in GatewayEdges]_vars

\* What the gate has on the page: the loading component, the auth-error
\* screen, the registration form, the children.
Shown(g) ==
    CASE Screen(g) = "loading" -> {"loading"}
      [] Screen(g) = "authError" -> {"authError"}
      [] Screen(g) = "onboarding" -> {"form"}
      [] Screen(g) = "onboardingOverChildren" -> {"form", "children"}
      [] Screen(g) = "children" -> {"children"}

\* identityGateway resolves to a GatewayResult whatever fails.
GatewayAlwaysResolves ==
    \A liffOk, hasProfile, hasToken \in BOOLEAN : \A response \in CheckResponses :
        identityGateway(liffOk, hasProfile, hasToken, response).isSet

\* C29: identityGateway resolves to a GatewayResult on every failure path,
\* and once it has returned the gate is out of its loading state and has
\* exactly one of the auth-error screen, the registration form and the
\* children on the page.
C29_OneScreenAfterGateway ==
    /\ GatewayAlwaysResolves
    /\ gate.gatewayResult.isSet =>
          /\ ~gate.isLoading
          /\ Cardinality(Shown(gate)) = 1
          /\ Shown(gate) \subseteq {"authError", "form", "children"}

\* The levels of the role order: staff 1 < super_general 2 < super_senior 3
\* < admin 4, and 0 for any other role.
LevelOf(role) ==
    CASE role = "staff" -> 1
      [] role = "super_general" -> 2
      [] role = "super_senior" -> 3
      [] role = "admin" -> 4
      [] OTHER -> 0

\* The last permission check answered what the role order says, the same
\* in the three implementations; with no staff record both providers
\* answered false.
AskedAsOrdered ==
    adminAuth.asked.n > 0 =>
        LET a == adminAuth.asked
        IN IF a.staff = "null"
           THEN ~a.context /\ ~a.legacy
           ELSE /\ a.hook = (LevelOf(a.staff) >= LevelOf(a.required))
                /\ a.context = a.hook
                /\ a.legacy = a.hook

\* C30: hasPermission(role, required) holds iff level(role) >=
\* level(required) in the order staff < super_general < super_senior <
\* admin; it is monotone; a role outside the four is denied every level;
\* with no staff record the answer is false; and the hook, the provider and
\* the legacy provider give the same answer.
C30_PermissionFollowsRoleOrder ==
    /\ AskedAsOrdered
    /\ \A role \in LoadedRoles : \A required \in StaffRoles :
          /\ hasPermission(role, required) = (LevelOf(role) >= LevelOf(required))
          /\ AdminAuthProvider_hasPermission(role, required) = hasPermission(role, required)
          /\ LegacyAdminAuthProvider_hasPermission(role, required)
                = hasPermission(role, required)
          /\ hasPermission(role, required) =>
                \A lower \in StaffRoles :
                    LevelOf(lower) <= LevelOf(required) => hasPermission(role, lower)
          /\ role \notin StaffRoles => ~hasPermission(role, required)
    /\ \A required \in StaffRoles :
          /\ ~AdminAuthProvider_hasPermission("null", required)
          /\ ~LegacyAdminAuthProvider_hasPermission("null", required)

\* C30 witness: a super_general was asked for super_senior and denied by
\* all three implementations.
C30_SuperGeneralDeniedSuperSenior ==
    /\ adminAuth.asked.n > 0
    /\ adminAuth.asked.staff = "super_general"
    /\ adminAuth.asked.required = "super_senior"
    /\ ~adminAuth.asked.hook
    /\ ~adminAuth.asked.context
    /\ ~adminAuth.asked.legacy

====
